---- MODULE Spec2Model ----
(***************************************************************************)
(* Motion control engine for one or two continuous-rotation servos:        *)
(* the Servo360 channel (servo_360.cc), the ServoMcpController tool        *)
(* handlers (servo_mcp.cc) and the degree mapper.                          *)
(*                                                                         *)
(* Every execution context (the caller of the tool handlers, and every     *)
(* FreeRTOS task created with xTaskCreate) is a thread with a queue of     *)
(* pending operations.  A handler or a Servo360 method installs the        *)
(* sequence of channel operations and sleeps its code performs; the        *)
(* threads execute them one shared access at a time, so that two threads   *)
(* on one channel interleave as the unsynchronised code does.  Time is     *)
(* logical: a sleeping thread holds the milliseconds it still has to       *)
(* wait, and time advances only when no thread can run.                    *)
(***************************************************************************)
EXTENDS Integers, Sequences, FiniteSets, TLC

\* ------------------------------------------------------------------ bounds
\* Largest number of tasks alive at once (xTaskCreate is not called beyond it).
MaxTasks == 2

\* ------------------------------------------------------- program constants
DefaultStop == 1500
DefaultMaxFwd == 2000
DefaultMaxRev == 1000
SpeedLimit == 100
Deadband == 3
MinRunSpeed == 5
RunDelayInterval == 100
QuickStopDelay == 100
WavePause == 100
RawPulseMin == 1000
RawPulseMax == 2000
Two16 == 65536

Channels == {"left", "right"}
NoChannel == "-"

default_pwm_range ==
    [stop |-> DefaultStop, max_fwd |-> DefaultMaxFwd, max_rev |-> DefaultMaxRev]

\* A custom range, narrower than [1000,2000], as a caller of the constructor
\* may pass.
custom_pwm_range == [stop |-> 1500, max_fwd |-> 1700, max_rev |-> 1300]

VARIABLES
    initialized,    \* [channel -> BOOLEAN]  Servo360::initialized_
    reverse,        \* [channel -> BOOLEAN]  Servo360::reverse_
    pwm_range,      \* [channel -> range]    Servo360::pwm_range_
    current_speed,  \* [channel -> Int]      Servo360::current_speed_
    cmpr,           \* [channel -> Nat]      compare value held by the comparator
    faulty,         \* the comparator may reject a compare value (fault injection)
    threads,        \* [thread id -> thread]; 0 is the caller, others are tasks
    last,           \* the last call issued by the caller, and the commands
                    \* issued before it (history)
    log,            \* [channel -> events since the last call was issued] (history):
                    \* <<"w", pulse>> written by set_speed_internal, <<"r", pulse>>
                    \* written by set_raw_pulse_width, <<"rejected", pulse>> refused
                    \* by the comparator, <<"s", ms>> a sleep of the channel's method
    elapsed,        \* logical milliseconds since the last call was issued (history)
    mapper,         \* the call of the degree mapper: its arguments and results
    hw              \* [channel -> the object's lifetime and its MCPWM handles
                    \* oper_, cmpr_, gen_]

vars == <<initialized, reverse, pwm_range, current_speed, cmpr, faulty,
          threads, last, log, elapsed, mapper, hw>>

\* What no method of a channel and no tool handler changes.
chanVars == <<initialized, reverse, pwm_range, mapper, hw>>

\* ------------------------------------------------------------- arithmetic
Abs(x) == IF x < 0 THEN -x ELSE x

Min(S) == CHOOSE x \in S : \A y \in S : x <= y

\* uint32_t values are pairs <<high 16 bits, low 16 bits>>, so that products
\* and negations wrap at 2^32 as they do in the code.
U32(n) == <<n \div Two16, n % Two16>>

U32Neg(u) ==
    IF u = <<0, 0>> THEN u
    ELSE IF u[2] = 0 THEN <<Two16 - u[1], 0>>
    ELSE <<(Two16 - 1) - u[1], Two16 - u[2]>>

U32MulSmall(u, k) ==
    LET lo == u[2] * k
        hi == u[1] * k + (lo \div Two16)
    IN  <<hi % Two16, lo % Two16>>

U32DivSmall(u, d) ==
    LET q1 == u[1] \div d
        r1 == u[1] % d
    IN  <<q1, (r1 * Two16 + u[2]) \div d>>

\* Conversion of a uint32_t to int (two's complement).
U32ToInt(u) ==
    IF u[1] >= Two16 \div 2
    THEN -(((Two16 - 1) - u[1]) * Two16 + (Two16 - u[2]))
    ELSE u[1] * Two16 + u[2]

\* Mutant: set_speed without the clamp to [-100,100].
ClampSpeedNone(speed) == speed

\* ------------------------------------------------------ Servo360 mappings
ClampSpeed(speed) ==
    IF speed > SpeedLimit THEN SpeedLimit
    ELSE IF speed < -SpeedLimit THEN -SpeedLimit
    ELSE speed

\* Mutant: set_speed ignores reverse_.
EffectiveSpeedForward(ch, speed) == ClampSpeed(speed)

\* The speed set_speed works with: negated on a reversed channel, then clamped.
EffectiveSpeed(ch, speed) ==
    ClampSpeed(IF reverse[ch] THEN -speed ELSE speed)

\* Mutant: the deadband also swallows a change of exactly 3.
InDeadbandInclusive(ch, eff) == Abs(eff - current_speed[ch]) <= Deadband

InDeadband(ch, eff) == Abs(eff - current_speed[ch]) < Deadband

\* Mutant: the reverse branch adds instead of subtracting.
SpeedToPulseOneSided(r, speed) ==
    IF speed = 0 THEN r.stop
    ELSE IF speed > 0 THEN r.stop + ((r.max_fwd - r.stop) * speed) \div 100
    ELSE r.stop + ((r.stop - r.max_rev) * (-speed)) \div 100

\* set_speed_internal: the pulse width for a speed.
SpeedToPulse(r, speed) ==
    IF speed = 0 THEN r.stop
    ELSE IF speed > 0 THEN r.stop + ((r.max_fwd - r.stop) * speed) \div 100
    ELSE r.stop - ((r.stop - r.max_rev) * (-speed)) \div 100

\* set_raw_pulse_width: the speed estimated from a pulse width, in the
\* uint32_t arithmetic of the code, assigned to the int current_speed_.
PulseToSpeed(r, pulse) ==
    IF pulse = r.stop THEN 0
    ELSE IF pulse > r.stop
    THEN U32ToInt(U32DivSmall(U32MulSmall(U32(pulse - r.stop), 100),
                              r.max_fwd - r.stop))
    ELSE U32ToInt(U32DivSmall(U32MulSmall(U32Neg(U32(r.stop - pulse)), 100),
                              r.stop - r.max_rev))

\* Mutant: set_raw_pulse_width without the bounds test.
RawPulseAcceptedAny(pulse) == TRUE

RawPulseAccepted(pulse) == pulse >= RawPulseMin /\ pulse <= RawPulseMax

\* Outcomes of mcpwm_comparator_set_compare_value.
HwOutcomes == IF faulty THEN {TRUE, FALSE} ELSE {TRUE}

\* ------------------------------------------------------------ operations
Op(k, ch, a, p) == [k |-> k, ch |-> ch, a |-> a, p |-> p]
SetSpeedOp(ch, speed) == Op("set_speed", ch, speed, <<>>)
StopOp(ch) == Op("stop", ch, 0, <<>>)
RawOp(ch, pulse) == Op("raw", ch, pulse, <<>>)
SleepOp(ch, ms) == Op("sleep", ch, ms, <<>>)
SpawnOp(ch, prog) == Op("spawn", ch, 0, prog)
RetOp(ok) == Op("ret", NoChannel, IF ok THEN 1 ELSE 0, <<>>)
ExitOp == Op("exit", NoChannel, 0, <<>>)

RECURSIVE Repeat(_, _)
Repeat(seq, n) == IF n <= 0 THEN <<>> ELSE seq \o Repeat(seq, n - 1)

\* Mutant: run_for without the minimum speed.
RunForSpeedNoFloor(speed) == ClampSpeed(speed)

\* Mutant: the minimum speed is applied without the sign of the request.
RunForSpeedUnsigned(speed) ==
    LET c == ClampSpeed(speed)
    IN  IF Abs(c) < MinRunSpeed THEN MinRunSpeed ELSE c

\* Mutant: a request of 0 is raised to +5, like the positive requests.
RunForSpeedZeroForward(speed) ==
    LET c == ClampSpeed(speed)
    IN  IF Abs(c) < MinRunSpeed
        THEN (IF c >= 0 THEN MinRunSpeed ELSE -MinRunSpeed)
        ELSE c

\* Servo360::run_for
RunForSpeed(speed) ==
    LET c == ClampSpeed(speed)
    IN  IF Abs(c) < MinRunSpeed
        THEN (IF c > 0 THEN MinRunSpeed ELSE -MinRunSpeed)
        ELSE c

\* Mutant: run_for without the sleep for the remainder.
RunForSleepsNoRemainder(ch, duration_ms) ==
    Repeat(<<SleepOp(ch, RunDelayInterval)>>, duration_ms \div RunDelayInterval)

\* run_for: the delays between set_speed and stop (lines 186-198).
RunForSleeps(ch, duration_ms) ==
    Repeat(<<SleepOp(ch, RunDelayInterval)>>, duration_ms \div RunDelayInterval)
    \o (IF duration_ms % RunDelayInterval > 0
        THEN <<SleepOp(ch, duration_ms % RunDelayInterval)>>
        ELSE <<>>)

\* Mutant: run_for without the test of duration_ms.
run_for_any_duration(ch, speed, duration_ms) ==
    IF ~initialized[ch] THEN <<>>
    ELSE <<SetSpeedOp(ch, RunForSpeed(speed))>>
         \o RunForSleeps(ch, duration_ms)
         \o <<StopOp(ch)>>

\* Servo360::run_for
run_for(ch, speed, duration_ms) ==
    IF ~initialized[ch] THEN <<>>
    ELSE IF duration_ms <= 0 THEN <<>>
    ELSE <<SetSpeedOp(ch, RunForSpeed(speed))>>
         \o RunForSleeps(ch, duration_ms)
         \o <<StopOp(ch)>>

\* Mutant: the task of quick_action ends without calling stop().
QuickStopTaskNoStop(ch) == <<SleepOp(ch, QuickStopDelay), ExitOp>>

\* The task quick_action creates.
QuickStopTask(ch) == <<SleepOp(ch, QuickStopDelay), StopOp(ch), ExitOp>>

\* Mutant: the task of quick_action waits for the requested duration.
quick_action_timed(ch, speed, duration_ms) ==
    IF ~initialized[ch] THEN <<>>
    ELSE IF duration_ms <= 0 THEN <<>>
    ELSE <<SetSpeedOp(ch, speed),
           SpawnOp(ch, <<SleepOp(ch, duration_ms), StopOp(ch), ExitOp>>)>>

\* Mutant: quick_action without the test of initialized_.
quick_action_unchecked(ch, speed, duration_ms) ==
    IF duration_ms <= 0 THEN <<>>
    ELSE <<SetSpeedOp(ch, speed), SpawnOp(ch, QuickStopTask(ch))>>

\* Servo360::quick_action
quick_action(ch, speed, duration_ms) ==
    IF ~initialized[ch] THEN <<>>
    ELSE IF duration_ms <= 0 THEN <<>>
    ELSE <<SetSpeedOp(ch, speed), SpawnOp(ch, QuickStopTask(ch))>>

\* Mutant: raise_arm drives the channel with set_speed, without run_for's
\* minimum speed.
raise_arm_unfloored(ch, speed, duration_ms) ==
    IF ~initialized[ch] \/ duration_ms <= 0 THEN <<>>
    ELSE <<SetSpeedOp(ch, speed)>> \o RunForSleeps(ch, duration_ms) \o <<StopOp(ch)>>

\* Servo360::raise_arm
raise_arm(ch, speed, duration_ms) ==
    IF ~initialized[ch] THEN <<>> ELSE run_for(ch, speed, duration_ms)

\* Mutant: wave without the run in the opposite direction.
wave_one_way(ch, speed, duration_ms, count) ==
    IF ~initialized[ch] \/ speed = 0 \/ duration_ms <= 0 \/ count <= 0
    THEN <<>>
    ELSE Repeat(run_for(ch, speed, duration_ms) \o <<SleepOp(ch, WavePause)>>
                    \o <<SleepOp(ch, WavePause)>>,
                count)
         \o <<StopOp(ch)>>

\* Servo360::wave
wave(ch, speed, duration_ms, count) ==
    IF ~initialized[ch] \/ speed = 0 \/ duration_ms <= 0 \/ count <= 0
    THEN <<>>
    ELSE Repeat(run_for(ch, speed, duration_ms)
                    \o <<SleepOp(ch, WavePause)>>
                    \o run_for(ch, -speed, duration_ms)
                    \o <<SleepOp(ch, WavePause)>>,
                count)
         \o <<StopOp(ch)>>

\* Servo360::salute
salute(ch, speed, duration_ms) ==
    IF ~initialized[ch] THEN <<>>
    ELSE run_for(ch, speed, duration_ms) \o <<StopOp(ch)>>

\* Mutant: back_and_forth built from run_for.
back_and_forth_run_for(ch, speed, duration_ms, count) ==
    IF ~initialized[ch] \/ speed = 0 \/ duration_ms <= 0 \/ count <= 0
    THEN <<>>
    ELSE Repeat(run_for(ch, speed, duration_ms) \o run_for(ch, -speed, duration_ms),
                count)
         \o <<StopOp(ch)>>

\* Servo360::back_and_forth
back_and_forth(ch, speed, duration_ms, count) ==
    IF ~initialized[ch] \/ speed = 0 \/ duration_ms <= 0 \/ count <= 0
    THEN <<>>
    ELSE Repeat(<<SetSpeedOp(ch, speed), SleepOp(ch, duration_ms),
                  SetSpeedOp(ch, -speed), SleepOp(ch, duration_ms)>>,
                count)
         \o <<StopOp(ch)>>

\* ---------------------------------------------------------------- threads
Caller == 0
ThreadIds == 0 .. MaxTasks
TaskIds == 1 .. MaxTasks

NoThread == [live |-> FALSE, ops |-> <<>>, pc |-> "call", eff |-> 0, sleep |-> 0]
IdleCaller == [NoThread EXCEPT !.live = TRUE]
NewTask(prog) == [NoThread EXCEPT !.live = TRUE, !.ops = prog]

Runnable(t) ==
    /\ threads[t].live
    /\ threads[t].ops # <<>>
    /\ threads[t].sleep = 0

HeadOp(t) == Head(threads[t].ops)

At(t, kind, pc) ==
    /\ Runnable(t)
    /\ HeadOp(t).k = kind
    /\ threads[t].pc = pc

\* The thread has finished its head operation.
Popped(t) ==
    [threads EXCEPT ![t].ops = Tail(@), ![t].pc = "call", ![t].eff = 0]

LiveTasks == {t \in TaskIds : threads[t].live}
FreeTaskIds == TaskIds \ LiveTasks

\* The channels a thread still has operations for.
PendingOn(t, ch) ==
    /\ threads[t].live
    /\ \E i \in 1 .. Len(threads[t].ops) :
          /\ threads[t].ops[i].ch = ch
          /\ threads[t].ops[i].k \in {"set_speed", "stop", "raw", "sleep"}

\* The history of a call is kept until the caller drops it (Forget).
Logged(ch, ev) ==
    IF last.op = "none" THEN log ELSE [log EXCEPT ![ch] = Append(@, ev)]

\* ------------------------------------------------- steps of Servo360 code
\* set_speed up to the deadband test (lines 117-129): the call ends when the
\* channel is not initialized or the change is inside the deadband.
set_speed_check(t, ch, speed) ==
    IF ~initialized[ch] \/ InDeadband(ch, EffectiveSpeed(ch, speed))
    THEN threads' = Popped(t)
    ELSE threads' = [threads EXCEPT ![t].pc = "assign",
                                    ![t].eff = EffectiveSpeed(ch, speed)]

SetSpeedCall(t) ==
    /\ At(t, "set_speed", "call")
    /\ set_speed_check(t, HeadOp(t).ch, HeadOp(t).a)
    /\ UNCHANGED <<chanVars, current_speed, cmpr, faulty, last, log, elapsed>>

\* Mutant: stop writes the stop pulse width without the deadband test.
StopCallDirect(t) ==
    /\ At(t, "stop", "call")
    /\ IF ~initialized[HeadOp(t).ch]
       THEN threads' = Popped(t)
       ELSE threads' = [threads EXCEPT ![t].pc = "assign", ![t].eff = 0]
    /\ UNCHANGED <<chanVars, current_speed, cmpr, faulty, last, log, elapsed>>

\* stop: returns when not initialized, else set_speed(0).
StopCall(t) ==
    /\ At(t, "stop", "call")
    /\ IF ~initialized[HeadOp(t).ch]
       THEN threads' = Popped(t)
       ELSE set_speed_check(t, HeadOp(t).ch, 0)
    /\ UNCHANGED <<chanVars, current_speed, cmpr, faulty, last, log, elapsed>>

\* current_speed_ = speed (line 130)
SetSpeedAssign(t) ==
    /\ Runnable(t)
    /\ HeadOp(t).k \in {"set_speed", "stop"}
    /\ threads[t].pc = "assign"
    /\ current_speed' = [current_speed EXCEPT ![HeadOp(t).ch] = threads[t].eff]
    /\ threads' = [threads EXCEPT ![t].pc = "write"]
    /\ UNCHANGED <<chanVars, cmpr, faulty, last, log, elapsed>>

\* Mutant: the channels share one comparator.
SetSpeedWriteShared(t) ==
    /\ Runnable(t)
    /\ HeadOp(t).k \in {"set_speed", "stop"}
    /\ threads[t].pc = "write"
    /\ LET ch == HeadOp(t).ch
           pulse == SpeedToPulse(pwm_range[ch], threads[t].eff)
       IN  \E ok \in HwOutcomes :
              /\ cmpr' = IF ok THEN [c \in Channels |-> pulse] ELSE cmpr
              /\ log' = Logged(ch, <<IF ok THEN "w" ELSE "rejected", pulse>>)
    /\ threads' = Popped(t)
    /\ UNCHANGED <<chanVars, current_speed, faulty, last, elapsed>>

\* set_speed_internal (lines 134-150): the comparator takes the pulse width,
\* or rejects it and the function returns.
SetSpeedWrite(t) ==
    /\ Runnable(t)
    /\ HeadOp(t).k \in {"set_speed", "stop"}
    /\ threads[t].pc = "write"
    /\ LET ch == HeadOp(t).ch
           pulse == SpeedToPulse(pwm_range[ch], threads[t].eff)
       IN  \E ok \in HwOutcomes :
              /\ cmpr' = IF ok THEN [cmpr EXCEPT ![ch] = pulse] ELSE cmpr
              /\ log' = Logged(ch, <<IF ok THEN "w" ELSE "rejected", pulse>>)
    /\ threads' = Popped(t)
    /\ UNCHANGED <<chanVars, current_speed, faulty, last, elapsed>>

\* set_raw_pulse_width up to the comparator update (lines 293-311).
RawCall(t) ==
    /\ At(t, "raw", "call")
    /\ LET ch == HeadOp(t).ch
           pulse == HeadOp(t).a
       IN  IF ~initialized[ch] \/ ~RawPulseAccepted(pulse)
           THEN /\ threads' = Popped(t)
                /\ UNCHANGED <<cmpr, log>>
           ELSE \E ok \in HwOutcomes :
                   IF ok
                   THEN /\ cmpr' = [cmpr EXCEPT ![ch] = pulse]
                        /\ log' = Logged(ch, <<"r", pulse>>)
                        /\ threads' = [threads EXCEPT ![t].pc = "assign"]
                   ELSE /\ threads' = Popped(t)
                        /\ log' = Logged(ch, <<"rejected", pulse>>)
                        /\ UNCHANGED cmpr
    /\ UNCHANGED <<chanVars, current_speed, faulty, last, elapsed>>

\* set_raw_pulse_width: the estimate of current_speed_ (lines 313-324).
RawAssign(t) ==
    /\ At(t, "raw", "assign")
    /\ current_speed' =
          [current_speed EXCEPT ![HeadOp(t).ch] =
              PulseToSpeed(pwm_range[HeadOp(t).ch], HeadOp(t).a)]
    /\ threads' = Popped(t)
    /\ UNCHANGED <<chanVars, cmpr, faulty, last, log, elapsed>>

\* vTaskDelay(pdMS_TO_TICKS(ms))
Sleep(t) ==
    /\ At(t, "sleep", "call")
    /\ threads' = [Popped(t) EXCEPT ![t].sleep = HeadOp(t).a]
    /\ log' = IF HeadOp(t).ch \in Channels
              THEN Logged(HeadOp(t).ch, <<"s", HeadOp(t).a>>)
              ELSE log
    /\ UNCHANGED <<chanVars, current_speed, cmpr, faulty, last, elapsed>>

\* xTaskCreate
Spawn(t) ==
    /\ At(t, "spawn", "call")
    /\ FreeTaskIds # {}
    /\ LET id == Min(FreeTaskIds)
       IN  threads' = [Popped(t) EXCEPT ![id] = NewTask(HeadOp(t).p)]
    /\ last' = IF t = Caller
               THEN [last EXCEPT !.spawned = Append(@, HeadOp(t).p)]
               ELSE last
    /\ UNCHANGED <<chanVars, current_speed, cmpr, faulty, log, elapsed>>

\* The call the caller issued returns.
Return(t) ==
    /\ At(t, "ret", "call")
    /\ threads' = Popped(t)
    /\ last' = [last EXCEPT !.done = TRUE, !.ret = (HeadOp(t).a = 1)]
    /\ UNCHANGED <<chanVars, current_speed, cmpr, faulty, log, elapsed>>

\* vTaskDelete(nullptr)
Exit(t) ==
    /\ At(t, "exit", "call")
    /\ t # Caller
    /\ threads' = [threads EXCEPT ![t] = NoThread]
    /\ UNCHANGED <<chanVars, current_speed, cmpr, faulty, last, log, elapsed>>

Step(t) ==
    \/ SetSpeedCall(t)
    \/ StopCall(t)
    \/ SetSpeedAssign(t)
    \/ SetSpeedWrite(t)
    \/ RawCall(t)
    \/ RawAssign(t)
    \/ Sleep(t)
    \/ Spawn(t)
    \/ Return(t)
    \/ Exit(t)

\* Time passes when no thread can run: to the next wake-up.
Sleeping == {t \in ThreadIds : threads[t].live /\ threads[t].sleep > 0}

Tick ==
    /\ \A t \in ThreadIds : ~Runnable(t)
    /\ Sleeping # {}
    /\ LET d == Min({threads[t].sleep : t \in Sleeping})
       IN  /\ threads' = [t \in ThreadIds |->
                            IF t \in Sleeping
                            THEN [threads[t] EXCEPT !.sleep = @ - d]
                            ELSE threads[t]]
           /\ elapsed' = IF last.op = "none" THEN elapsed ELSE elapsed + d
    /\ UNCHANGED <<chanVars, current_speed, cmpr, faulty, last, log>>

\* --------------------------------------------------- the state after construction
\* Servo360::Servo360: current_speed_ 0; when setup_pwm succeeds the
\* comparator holds the stop pulse width and initialized_ is true, when it
\* fails no comparator is left (compare value 0) and initialized_ is false.
\* The constructor's final stop() is inside the deadband and writes nothing.
\* No call of the degree mapper has been made.
NoMapping ==
    [fn |-> "none", degree |-> 0,
     calibration |-> [speed |-> 0, full_circle_time_ms |-> 0,
                      degree_to_duration |-> <<>>],
     out_speed |-> 0, out_duration |-> 0]

\* A handle is "unset" while the member has not been written (the constructor
\* has no initializer for it), "held" when it names an allocated resource,
\* "null" after the resource was released and the member set to nullptr, and
\* "deleted" after the resource was released with the member left as it was.
\* bad records a release of something that is not held.
\* pc is the object's lifetime: "none" before the constructor, "setup" inside
\* setup_pwm (step is the call about to be made), "returned" when setup_pwm
\* has returned, "constructed", "used" once a method was called, "dtor" inside
\* the destructor, "destroyed".  valid: the constructor got a GPIO and a
\* timer.  failed_at: the step of setup_pwm that failed, 0 when none did.
\* orphans: the tasks that still had operations pending on the object when it
\* was deleted (history).  dangling: a method was called on the deleted
\* object.
NoObject ==
    [pc |-> "none", step |-> 0, valid |-> TRUE, failed_at |-> 0,
     oper |-> "unset", cmpr |-> "unset", gen |-> "unset", bad |-> FALSE,
     orphans |-> {}, dangling |-> FALSE]

\* The object after a construction in which every step succeeded.
BuiltObject ==
    [NoObject EXCEPT !.pc = "constructed", !.oper = "held", !.cmpr = "held",
                     !.gen = "held"]

\* The object after a construction whose first step, the allocation of the
\* operator, failed.
FailedObject == [NoObject EXCEPT !.pc = "constructed", !.failed_at = 1]

Constructed(inits, revs, ranges) ==
    /\ mapper = NoMapping
    /\ hw = [ch \in Channels |-> IF inits[ch] THEN BuiltObject ELSE FailedObject]
    /\ initialized = inits
    /\ reverse = revs
    /\ pwm_range = ranges
    /\ current_speed = [ch \in Channels |-> 0]
    /\ cmpr = [ch \in Channels |-> IF inits[ch] THEN ranges[ch].stop ELSE 0]

NoCall ==
    [op |-> "none", tgt |-> NoChannel, speed |-> 0, dur |-> 0, count |-> 0,
     pre_cs |-> [ch \in Channels |-> 0], pre_cmpr |-> [ch \in Channels |-> 0],
     done |-> TRUE, ret |-> TRUE, spawned |-> <<>>, before |-> <<>>]

EmptyLog == [ch \in Channels |-> <<>>]

AtRest ==
    /\ threads = [t \in ThreadIds |-> IF t = Caller THEN IdleCaller ELSE NoThread]
    /\ last = NoCall
    /\ log = EmptyLog
    /\ elapsed = 0

\* ------------------------------------------- a client of one Servo360 object
\* The channel the client of the Servo360 interface drives.
ApiChannel == "left"

SpeedArgs == {-150, -5, -2, 0, 3, 5, 30, 40, 42, 44, 150}
MotionSpeedArgs == {-150, -5, -2, 0, 3, 5, 40}
DurationArgs == {-100, 0, 150}
CountArgs == {0, 2}
RawArgs == {999, 1000, 1250, 1500, 1503, 1510, 1750, 2000, 2001}

CallerIdle == threads[Caller].ops = <<>> /\ threads[Caller].sleep = 0

\* No other thread has operations pending on the channel.
Solo(ch) == \A t \in TaskIds : ~PendingOn(t, ch)

\* The caller calls a method of the channel: the method's operations, then
\* the return to the caller.  The client keeps the rule the class leaves to
\* it: it does not call into a channel while a task is still pending on it.
Call(op, ch, speed, dur, count, prog) ==
    /\ CallerIdle
    /\ last = NoCall
    /\ Solo(ch)
    /\ threads' = [threads EXCEPT ![Caller].ops = prog \o <<RetOp(TRUE)>>]
    /\ last' = [op |-> op, tgt |-> ch, speed |-> speed, dur |-> dur,
                count |-> count, pre_cs |-> current_speed, pre_cmpr |-> cmpr,
                done |-> FALSE, ret |-> FALSE, spawned |-> <<>>, before |-> <<>>]
    /\ log' = EmptyLog
    /\ elapsed' = 0
    /\ UNCHANGED <<chanVars, current_speed, cmpr, faulty>>

CallSetSpeed ==
    \E s \in SpeedArgs :
        Call("set_speed", ApiChannel, s, 0, 0, <<SetSpeedOp(ApiChannel, s)>>)

CallStop == Call("stop", ApiChannel, 0, 0, 0, <<StopOp(ApiChannel)>>)

\* A second stop() right after a stop() has returned; count 1 marks it.
CallStopAgain ==
    /\ CallerIdle
    /\ last.op = "stop" /\ last.done
    /\ last.count = 0
    /\ Solo(ApiChannel)
    /\ threads' = [threads EXCEPT ![Caller].ops = <<StopOp(ApiChannel), RetOp(TRUE)>>]
    /\ last' = [last EXCEPT !.count = 1, !.pre_cs = current_speed,
                            !.pre_cmpr = cmpr, !.done = FALSE, !.ret = FALSE]
    /\ log' = EmptyLog
    /\ elapsed' = 0
    /\ UNCHANGED <<chanVars, current_speed, cmpr, faulty>>

CallRunFor ==
    \E s \in MotionSpeedArgs, d \in DurationArgs :
        Call("run_for", ApiChannel, s, d, 0, run_for(ApiChannel, s, d))

CallQuickAction ==
    \E s \in MotionSpeedArgs, d \in DurationArgs :
        /\ FreeTaskIds # {}
        /\ Call("quick_action", ApiChannel, s, d, 0, quick_action(ApiChannel, s, d))

CallRaiseArm ==
    \E s \in MotionSpeedArgs, d \in DurationArgs :
        Call("raise_arm", ApiChannel, s, d, 0, raise_arm(ApiChannel, s, d))

CallWave ==
    \E s \in MotionSpeedArgs, d \in DurationArgs, n \in CountArgs :
        Call("wave", ApiChannel, s, d, n, wave(ApiChannel, s, d, n))

CallSalute ==
    \E s \in MotionSpeedArgs, d \in DurationArgs :
        Call("salute", ApiChannel, s, d, 0, salute(ApiChannel, s, d))

CallBackAndForth ==
    \E s \in MotionSpeedArgs, d \in DurationArgs, n \in CountArgs :
        Call("back_and_forth", ApiChannel, s, d, n,
             back_and_forth(ApiChannel, s, d, n))

CallSetRawPulseWidth ==
    \E p \in RawArgs :
        Call("set_raw_pulse_width", ApiChannel, p, 0, 0, <<RawOp(ApiChannel, p)>>)

\* The caller drops the history of the call that has returned; it keeps no
\* program state.
Forget ==
    /\ CallerIdle
    /\ last.done
    /\ last # NoCall
    /\ last' = NoCall
    /\ log' = EmptyLog
    /\ elapsed' = 0
    /\ UNCHANGED <<chanVars, current_speed, cmpr, faulty, threads>>

ApiCall ==
    \/ CallSetSpeed
    \/ CallStop
    \/ CallStopAgain
    \/ CallRunFor
    \/ CallQuickAction
    \/ CallRaiseArm
    \/ CallWave
    \/ CallSalute
    \/ CallBackAndForth
    \/ CallSetRawPulseWidth

\* The channel of the client: any outcome of setup_pwm, either direction,
\* the default range or a custom one.  The other channel is not used.
ApiConstructed ==
    \E i \in BOOLEAN, r \in BOOLEAN, g \in {default_pwm_range, custom_pwm_range} :
        Constructed([ch \in Channels |-> IF ch = ApiChannel THEN i ELSE TRUE],
                    [ch \in Channels |-> IF ch = ApiChannel THEN r ELSE FALSE],
                    [ch \in Channels |-> IF ch = ApiChannel THEN g ELSE default_pwm_range])

Init == ApiConstructed /\ AtRest /\ faulty = FALSE

Next == ApiCall \/ Forget \/ (\E t \in ThreadIds : Step(t)) \/ Tick

Spec == Init /\ [][Next]_vars

\* ------------------------------------- a client of the timed operations
\* run_for and quick_action with durations below, at and above multiples of
\* the delay interval, each from rest or after a set_speed.
TimingDurations == {40, 100, 230, 300}
TimingSpeeds == {-40, 3, 40}

TimedRunFor ==
    \E s \in TimingSpeeds, d \in TimingDurations :
        Call("run_for", ApiChannel, s, d, 0, run_for(ApiChannel, s, d))

TimedQuickAction ==
    \E s \in TimingSpeeds, d \in TimingDurations :
        /\ FreeTaskIds # {}
        /\ Call("quick_action", ApiChannel, s, d, 0, quick_action(ApiChannel, s, d))

NextTiming ==
    \/ TimedRunFor
    \/ TimedQuickAction
    \/ CallSetSpeed
    \/ Forget
    \/ \E t \in ThreadIds :
          \/ SetSpeedCall(t)
          \/ StopCall(t)
          \/ SetSpeedAssign(t)
          \/ SetSpeedWrite(t)
          \/ Sleep(t)
          \/ Spawn(t)
          \/ Return(t)
          \/ Exit(t)
    \/ Tick

SpecTiming == Init /\ [][NextTiming]_vars

\* A client of set_speed and stop when the comparator may reject a compare
\* value.
InitFault == ApiConstructed /\ AtRest /\ faulty = TRUE

NextFault ==
    \/ CallSetSpeed
    \/ CallStop
    \/ Forget
    \/ \E t \in ThreadIds :
          \/ SetSpeedCall(t)
          \/ StopCall(t)
          \/ SetSpeedAssign(t)
          \/ SetSpeedWrite(t)
          \/ Return(t)

SpecFault == InitFault /\ [][NextFault]_vars

\* ------------------------------------------- a sweep of set_speed requests
\* Every request in the range, each made from rest or from speed 50 so that
\* no request of the range is hidden by the deadband.
SweepMax == 102
SweepFrom == {0, 50}

SweepSetSpeed ==
    \E s \in -SweepMax .. SweepMax :
        /\ current_speed[ApiChannel] \in SweepFrom
        /\ Call("set_speed", ApiChannel, s, 0, 0, <<SetSpeedOp(ApiChannel, s)>>)

InitSweep ==
    /\ Constructed([ch \in Channels |-> TRUE], [ch \in Channels |-> FALSE],
                   [ch \in Channels |-> default_pwm_range])
    /\ AtRest
    /\ faulty = FALSE

NextSweep ==
    \/ SweepSetSpeed
    \/ Forget
    \/ \E t \in ThreadIds :
          \/ SetSpeedCall(t)
          \/ SetSpeedAssign(t)
          \/ SetSpeedWrite(t)
          \/ Return(t)

SpecSweep == InitSweep /\ [][NextSweep]_vars

\* --------------------------------------------- ServoMcpController handlers
MaxCmds == 2

WaveDefaultCount == 3
WaveDefaultSpeed == 80
WaveDefaultDuration == 400
TestDirectionPause == 200

\* Mutant: "hand" and "both_hands" are not synonyms of both.
normalize_target_no_hand(target) ==
    IF target \in {"both_arms", "arm", "both"} THEN "both"
    ELSE IF target \in {"right_arm", "right", "right_hand"} THEN "right"
    ELSE IF target \in {"left_arm", "left", "left_hand"} THEN "left"
    ELSE target

normalize_target(target) ==
    IF target \in {"both_arms", "arm", "both", "hand", "both_hands"} THEN "both"
    ELSE IF target \in {"right_arm", "right", "right_hand"} THEN "right"
    ELSE IF target \in {"left_arm", "left", "left_hand"} THEN "left"
    ELSE target

\* Mutant: every target string is accepted.
is_valid_target_any(target) == TRUE

is_valid_target(target) == normalize_target(target) \in {"left", "right", "both"}

\* The body of a task created with xTaskCreate: the work, then vTaskDelete.
TaskOf(body) == body \o <<ExitOp>>

\* Mutant: one task created for both channels, the left work then the right.
ForkSequential(left_body, right_body) ==
    <<SpawnOp(NoChannel, TaskOf(left_body \o right_body))>>

\* The two xTaskCreate calls of a both-target handler; nothing joins them.
Fork(left_body, right_body) ==
    <<SpawnOp("left", TaskOf(left_body)), SpawnOp("right", TaskOf(right_body))>>

\* Mutant: the work for a single channel is handed to a task as well.
DispatchDetached(target, on_left, on_right, on_both) ==
    IF target = "left" THEN <<SpawnOp("left", TaskOf(on_left))>>
    ELSE IF target = "right" THEN <<SpawnOp("right", TaskOf(on_right))>>
    ELSE IF target = "both" THEN on_both
    ELSE <<>>

\* if (target == "left") ... else if (target == "right") ... else if
\* (target == "both") ...
Dispatch(target, on_left, on_right, on_both) ==
    IF target = "left" THEN on_left
    ELSE IF target = "right" THEN on_right
    ELSE IF target = "both" THEN on_both
    ELSE <<>>

\* A handler: return false on invalid arguments, else the work and return true.
Handler(valid, body) ==
    IF valid THEN body \o <<RetOp(TRUE)>> ELSE <<RetOp(FALSE)>>

\* self.servo360.set
tool_set(raw, speed, duration) ==
    LET target == normalize_target(raw)
    IN  Handler(is_valid_target(target) /\ duration > 0,
                Dispatch(target,
                         run_for("left", speed, duration),
                         run_for("right", speed, duration),
                         Fork(run_for("left", speed, duration),
                              run_for("right", speed, duration))))

\* self.servo360.quick_set
tool_quick_set(raw, speed, duration) ==
    LET target == normalize_target(raw)
    IN  Handler(is_valid_target(target),
                Dispatch(target,
                         quick_action("left", speed, duration),
                         quick_action("right", speed, duration),
                         quick_action("left", speed, duration)
                             \o quick_action("right", speed, duration)))

\* Mutant: the both branch of wave runs the two gestures on the calling context.
tool_wave_blocking(raw, count, speed, duration) ==
    LET target == normalize_target(raw)
    IN  Handler(is_valid_target(target) /\ count > 0 /\ duration > 0,
                Dispatch(target,
                         wave("left", speed, duration, count),
                         wave("right", speed, duration, count),
                         wave("left", speed, duration, count)
                             \o wave("right", speed, duration, count)))

\* self.servo360.wave
tool_wave(raw, count, speed, duration) ==
    LET target == normalize_target(raw)
    IN  Handler(is_valid_target(target) /\ count > 0 /\ duration > 0,
                Dispatch(target,
                         wave("left", speed, duration, count),
                         wave("right", speed, duration, count),
                         Fork(wave("left", speed, duration, count),
                              wave("right", speed, duration, count))))

\* Mutant: raise hands the work for a single channel to a task as well.
tool_raise_detached(raw, speed, duration) ==
    LET target == normalize_target(raw)
    IN  Handler(is_valid_target(target) /\ duration > 0,
                DispatchDetached(target,
                                 raise_arm("left", speed, duration),
                                 raise_arm("right", speed, duration),
                                 Fork(raise_arm("left", speed, duration),
                                      raise_arm("right", speed, duration))))

\* self.servo360.raise
tool_raise(raw, speed, duration) ==
    LET target == normalize_target(raw)
    IN  Handler(is_valid_target(target) /\ duration > 0,
                Dispatch(target,
                         raise_arm("left", speed, duration),
                         raise_arm("right", speed, duration),
                         Fork(raise_arm("left", speed, duration),
                              raise_arm("right", speed, duration))))

\* self.servo360.salute
tool_salute(raw, speed, duration) ==
    LET target == normalize_target(raw)
    IN  Handler(is_valid_target(target) /\ duration > 0,
                Dispatch(target,
                         salute("left", speed, duration),
                         salute("right", speed, duration),
                         Fork(salute("left", speed, duration),
                              salute("right", speed, duration))))

\* self.servo360.back_and_forth
tool_back_and_forth(raw, speed, duration, count) ==
    LET target == normalize_target(raw)
    IN  Handler(is_valid_target(target),
                Dispatch(target,
                         back_and_forth("left", speed, duration, count),
                         back_and_forth("right", speed, duration, count),
                         Fork(back_and_forth("left", speed, duration, count),
                              back_and_forth("right", speed, duration, count))))

\* The body of the task self.servo360.test_direction creates.
test_direction_task(target, speed, duration) ==
    Dispatch(target,
             run_for("left", speed, duration)
                 \o <<SleepOp(NoChannel, TestDirectionPause)>>
                 \o run_for("left", -speed, duration),
             run_for("right", speed, duration)
                 \o <<SleepOp(NoChannel, TestDirectionPause)>>
                 \o run_for("right", -speed, duration),
             run_for("left", speed, duration)
                 \o run_for("right", speed, duration)
                 \o <<SleepOp(NoChannel, TestDirectionPause)>>
                 \o run_for("left", -speed, duration)
                 \o run_for("right", -speed, duration))

\* self.servo360.test_direction
tool_test_direction(raw, speed, duration) ==
    LET target == normalize_target(raw)
    IN  Handler(is_valid_target(target) /\ duration > 0,
                <<SpawnOp(NoChannel,
                          TaskOf(test_direction_task(target, speed, duration)))>>)

\* self.servo360.calibrate
tool_calibrate(raw, pulse_width) ==
    LET target == normalize_target(raw)
    IN  Handler(/\ is_valid_target(target)
                /\ pulse_width >= RawPulseMin
                /\ pulse_width <= RawPulseMax,
                Dispatch(target,
                         <<RawOp("left", pulse_width)>>,
                         <<RawOp("right", pulse_width)>>,
                         <<RawOp("left", pulse_width), RawOp("right", pulse_width)>>))

\* ------------------------------------------- the other tools with a target
\* if (target == ch || target == "both") ...
OnTarget(target, ch, prog) ==
    IF target = ch \/ target = "both" THEN prog ELSE <<>>

\* The same call on the left servo and then on the right servo, each under
\* its own target test.
LeftThenRight(target, on_left, on_right) ==
    OnTarget(target, "left", on_left) \o OnTarget(target, "right", on_right)

RunBoth(target, speed, duration) ==
    LeftThenRight(target, run_for("left", speed, duration),
                  run_for("right", speed, duration))

RawBoth(target, pulse) ==
    LeftThenRight(target, <<RawOp("left", pulse)>>, <<RawOp("right", pulse)>>)

StopBoth(target) ==
    LeftThenRight(target, <<StopOp("left")>>, <<StopOp("right")>>)

Pause(ms) == <<SleepOp(NoChannel, ms)>>

RECURSIVE ForEach(_, _)
\* for (x : items) body(x), the bodies given in order.
ForEach(bodies, i) ==
    IF i > Len(bodies) THEN <<>> ELSE bodies[i] \o ForEach(bodies, i + 1)

\* self.servo360.query
tool_query(raw) ==
    Handler(is_valid_target(normalize_target(raw)), <<>>)

AntiVibrationPulses ==
    <<1500, 1550, 1600, 1650, 1700, 1750, 1800, 1450, 1400, 1350, 1300, 1250, 1200>>

\* The body of the task self.servo360.anti_vibration_test creates.
anti_vibration_task(target, test_type) ==
    IF test_type = "gradual"
    THEN ForEach([i \in 1 .. 5 |->
                    RunBoth(target, 10 * i, 1000) \o Pause(500)
                    \o RunBoth(target, -(10 * i), 1000) \o Pause(500)], 1)
    ELSE IF test_type = "pulse_width"
    THEN ForEach([i \in 1 .. Len(AntiVibrationPulses) |->
                    RawBoth(target, AntiVibrationPulses[i]) \o Pause(1000)], 1)
         \o StopBoth(target)
    ELSE IF test_type = "stability"
    THEN ForEach([i \in 1 .. 5 |-> RunBoth(target, 30, 2000) \o Pause(1000)], 1)
    ELSE <<>>

\* self.servo360.anti_vibration_test
tool_anti_vibration_test(raw, test_type) ==
    LET target == normalize_target(raw)
    IN  Handler(is_valid_target(target),
                <<SpawnOp(NoChannel,
                          TaskOf(anti_vibration_task(target, test_type)))>>)

\* The body of the task self.servo360.power_check creates.
power_check_task(target) ==
    RunBoth(target, 10, 500) \o Pause(1000)
    \o RunBoth(target, 30, 500) \o Pause(1000)
    \o RunBoth(target, 50, 500) \o Pause(1000)
    \o RawBoth(target, 1600) \o Pause(2000)
    \o StopBoth(target)

\* self.servo360.power_check
tool_power_check(raw) ==
    LET target == normalize_target(raw)
    IN  Handler(is_valid_target(target),
                <<SpawnOp(NoChannel, TaskOf(power_check_task(target)))>>)

RECURSIVE FineTuneSweep(_, _, _, _)
\* for (pulse = start_pulse; pulse <= end_pulse; pulse += step)
FineTuneSweep(target, pulse, end_pulse, step) ==
    IF pulse > end_pulse THEN <<>>
    ELSE RawBoth(target, pulse) \o Pause(2000)
         \o FineTuneSweep(target, pulse + step, end_pulse, step)

\* The body of the task self.servo360.fine_tune creates.
fine_tune_task(target, start_pulse, end_pulse, step) ==
    FineTuneSweep(target, start_pulse, end_pulse, step) \o StopBoth(target)

\* self.servo360.fine_tune
tool_fine_tune(raw, direction, start_pulse, end_pulse, step) ==
    LET target == normalize_target(raw)
        first == IF direction = "reverse" THEN end_pulse ELSE start_pulse
        final == IF direction = "reverse" THEN start_pulse ELSE end_pulse
    IN  Handler(/\ is_valid_target(target)
                /\ start_pulse >= RawPulseMin
                /\ end_pulse <= RawPulseMax
                /\ step > 0,
                <<SpawnOp(NoChannel,
                          TaskOf(fine_tune_task(target, first, final, step)))>>)

RotationSpeeds == <<10, 20, 30, 50, 70, 100>>

RotationPulses == <<1500, 1600, 1700, 1800, 1900, 2000, 1400, 1300, 1200, 1100, 1000>>

\* The body of the task self.servo360.continuous_rotation_test creates.
continuous_rotation_task(target, test_type) ==
    (IF test_type = "speed_test"
     THEN ForEach([i \in 1 .. Len(RotationSpeeds) |->
                     RunBoth(target, RotationSpeeds[i], 2000) \o Pause(1000)
                     \o RunBoth(target, -RotationSpeeds[i], 2000) \o Pause(1000)], 1)
     ELSE IF test_type = "pulse_test"
     THEN ForEach([i \in 1 .. Len(RotationPulses) |->
                     RawBoth(target, RotationPulses[i]) \o Pause(2000)], 1)
     ELSE IF test_type = "continuous_test"
     THEN ForEach([i \in 1 .. 3 |-> RunBoth(target, 50, 5000) \o Pause(2000)], 1)
     ELSE <<>>)
    \o StopBoth(target)

\* self.servo360.continuous_rotation_test
tool_continuous_rotation_test(raw, test_type) ==
    LET target == normalize_target(raw)
    IN  Handler(is_valid_target(target),
                <<SpawnOp(NoChannel,
                          TaskOf(continuous_rotation_task(target, test_type)))>>)

\* ----------------------------------------------- a client of the controller
CmdTargets == {"left", "right", "both", "Left"}
CmdSpeeds == {80}
CmdDurations == {0, 100}
CmdCounts == {0, 1}
CmdPulses == {999, 1510}

SpawnCount(prog) == Cardinality({i \in 1 .. Len(prog) : prog[i].k = "spawn"})

\* The commands issued so far, with their normalized targets.
Issued ==
    IF last.op = "none" THEN last.before
    ELSE Append(last.before, [op |-> last.op, tgt |-> normalize_target(last.tgt)])

\* The caller invokes a tool once the previous handler has returned.  Commands
\* arrive while the tasks of earlier commands are asleep or gone: a task runs
\* for an instant between sleeps of at least 100 ms.
Command(op, raw, speed, dur, count, prog) ==
    /\ CallerIdle
    /\ last.done
    /\ \A t \in TaskIds : ~Runnable(t)
    /\ Len(Issued) < MaxCmds
    /\ SpawnCount(prog) <= Cardinality(FreeTaskIds)
    /\ threads' = [threads EXCEPT ![Caller].ops = prog]
    /\ last' = [op |-> op, tgt |-> raw, speed |-> speed, dur |-> dur,
                count |-> count, pre_cs |-> current_speed, pre_cmpr |-> cmpr,
                done |-> FALSE, ret |-> FALSE, spawned |-> <<>>,
                before |-> Issued]
    /\ log' = EmptyLog
    /\ elapsed' = 0
    /\ UNCHANGED <<chanVars, current_speed, cmpr, faulty>>

CmdSet ==
    \E tg \in CmdTargets, s \in CmdSpeeds, d \in CmdDurations :
        Command("set", tg, s, d, 0, tool_set(tg, s, d))

CmdQuickSet ==
    \E tg \in CmdTargets, s \in CmdSpeeds, d \in CmdDurations :
        Command("quick_set", tg, s, d, 0, tool_quick_set(tg, s, d))

CmdWave ==
    \E tg \in CmdTargets, s \in CmdSpeeds, d \in CmdDurations, n \in CmdCounts :
        Command("wave", tg, s, d, n, tool_wave(tg, n, s, d))

CmdRaise ==
    \E tg \in CmdTargets, s \in CmdSpeeds, d \in CmdDurations :
        Command("raise", tg, s, d, 0, tool_raise(tg, s, d))

CmdSalute ==
    \E tg \in CmdTargets, s \in CmdSpeeds, d \in CmdDurations :
        Command("salute", tg, s, d, 0, tool_salute(tg, s, d))

CmdBackAndForth ==
    \E tg \in CmdTargets, s \in CmdSpeeds, d \in CmdDurations, n \in CmdCounts :
        Command("back_and_forth", tg, s, d, n, tool_back_and_forth(tg, s, d, n))

CmdTestDirection ==
    \E tg \in CmdTargets, s \in CmdSpeeds, d \in CmdDurations :
        Command("test_direction", tg, s, d, 0, tool_test_direction(tg, s, d))

CmdCalibrate ==
    \E tg \in CmdTargets, p \in CmdPulses :
        Command("calibrate", tg, p, 0, 0, tool_calibrate(tg, p))

\* ServoMcpController::ServoMcpController: both channels built with the
\* default range and not reversed; setup_pwm of either may fail.
ControllerConstructed ==
    \E il \in BOOLEAN, ir \in BOOLEAN :
        Constructed([ch \in Channels |-> IF ch = "left" THEN il ELSE ir],
                    [ch \in Channels |-> FALSE],
                    [ch \in Channels |-> default_pwm_range])

InitCoord == ControllerConstructed /\ AtRest /\ faulty = FALSE

NextCoord ==
    \/ CmdSet
    \/ CmdQuickSet
    \/ CmdWave
    \/ CmdRaise
    \/ CmdSalute
    \/ CmdBackAndForth
    \/ CmdTestDirection
    \/ CmdCalibrate
    \/ \E t \in ThreadIds : Step(t)
    \/ Tick

SpecCoord == InitCoord /\ [][NextCoord]_vars

\* ------------------------------ the wave command with its default arguments
\* wave(target = both) with count 3, speed 80, duration 400 and no other
\* command.
CmdWaveBothAlone ==
    /\ last = NoCall
    /\ Command("wave", "both", WaveDefaultSpeed, WaveDefaultDuration,
               WaveDefaultCount,
               tool_wave("both", WaveDefaultCount, WaveDefaultSpeed,
                         WaveDefaultDuration))

InitWave ==
    /\ Constructed([ch \in Channels |-> TRUE], [ch \in Channels |-> FALSE],
                   [ch \in Channels |-> default_pwm_range])
    /\ AtRest
    /\ faulty = FALSE

NextWave ==
    \/ CmdWaveBothAlone
    \/ \E t \in ThreadIds :
          \/ SetSpeedCall(t)
          \/ StopCall(t)
          \/ SetSpeedAssign(t)
          \/ SetSpeedWrite(t)
          \/ Sleep(t)
          \/ Spawn(t)
          \/ Return(t)
          \/ Exit(t)
    \/ Tick

SpecWave == InitWave /\ [][NextWave]_vars

\* ------------------------------------- one tool at a time, any arguments
\* A client that invokes any tool that takes a target, with valid and
\* invalid arguments, once the tasks of the previous command are gone.
EntryTargets == {"left", "right", "both", "arm", "foo", "Left"}
\* Every synonym, and strings that are none: unknown words, the empty
\* string, a trailing blank, and synonyms in another letter case.
TargetStrings ==
    {"both_arms", "arm", "both", "hand", "both_hands",
     "right_arm", "right", "right_hand", "left_arm", "left", "left_hand",
     "foo", "", "arms", "left ", "Left", "LEFT", "Both", "Right_Arm"}
EntrySpeeds == {0, 80}
EntryDurations == {-100, 0, 100}
EntryCounts == {0, 1}
EntryPulses == {999, 1510, 2001}
EntryTestTypes ==
    {"gradual", "pulse_width", "stability", "speed_test", "pulse_test",
     "continuous_test", "other"}
EntryDirections == {"forward", "reverse"}
EntryStartPulses == {999, 1500}
EntryEndPulses == {1550, 2001}
EntrySteps == {0, 25}

Entry(op, raw, speed, dur, count, prog) ==
    /\ last = NoCall
    /\ LiveTasks = {}
    /\ Command(op, raw, speed, dur, count, prog)

NextEntry ==
    \/ \E tg \in EntryTargets, s \in EntrySpeeds, d \in EntryDurations :
           Entry("set", tg, s, d, 0, tool_set(tg, s, d))
    \/ \E tg \in EntryTargets, s \in EntrySpeeds, d \in EntryDurations :
           Entry("quick_set", tg, s, d, 0, tool_quick_set(tg, s, d))
    \/ \E tg \in EntryTargets, s \in EntrySpeeds, d \in EntryDurations,
          n \in EntryCounts :
           Entry("wave", tg, s, d, n, tool_wave(tg, n, s, d))
    \/ \E tg \in EntryTargets, s \in EntrySpeeds, d \in EntryDurations :
           Entry("raise", tg, s, d, 0, tool_raise(tg, s, d))
    \/ \E tg \in EntryTargets, s \in EntrySpeeds, d \in EntryDurations :
           Entry("salute", tg, s, d, 0, tool_salute(tg, s, d))
    \/ \E tg \in EntryTargets, s \in EntrySpeeds, d \in EntryDurations,
          n \in EntryCounts :
           Entry("back_and_forth", tg, s, d, n, tool_back_and_forth(tg, s, d, n))
    \/ \E tg \in TargetStrings : Entry("query", tg, 0, 0, 0, tool_query(tg))
    \/ \E tg \in EntryTargets, s \in EntrySpeeds, d \in EntryDurations :
           Entry("test_direction", tg, s, d, 0, tool_test_direction(tg, s, d))
    \/ \E tg \in TargetStrings, p \in EntryPulses :
           Entry("calibrate", tg, p, 0, 0, tool_calibrate(tg, p))
    \/ \E tg \in EntryTargets, ty \in EntryTestTypes :
           Entry("anti_vibration_test", tg, 0, 0, 0, tool_anti_vibration_test(tg, ty))
    \/ \E tg \in EntryTargets :
           Entry("power_check", tg, 0, 0, 0, tool_power_check(tg))
    \/ \E tg \in EntryTargets, dir \in EntryDirections, a \in EntryStartPulses,
          b \in EntryEndPulses, st \in EntrySteps :
           Entry("fine_tune", tg, a, b, st, tool_fine_tune(tg, dir, a, b, st))
    \/ \E tg \in EntryTargets, ty \in EntryTestTypes :
           Entry("continuous_rotation_test", tg, 0, 0, 0,
                 tool_continuous_rotation_test(tg, ty))
    \/ Forget
    \/ \E t \in ThreadIds : Step(t)
    \/ Tick

SpecEntry == InitCoord /\ [][NextEntry]_vars

\* ------------------------------------------------- the degree mapper
\* servo_degree_mapper.cc: the conversion of an angle into the speed and
\* duration of a set command.  The products stay far below 2^31 for the
\* degrees and calibrations used here, so int arithmetic does not wrap.
MaxDegree == 180

DegreeArgs == -MaxDegree .. MaxDegree

\* ServoCalibration values: a table entry equal to the formula's result, no
\* table, and table entries that differ from the formula's results.
Calibrations ==
    { [speed |-> 80, full_circle_time_ms |-> 2000,
       degree_to_duration |-> (90 :> 500)],
      [speed |-> 80, full_circle_time_ms |-> 2000,
       degree_to_duration |-> <<>>],
      [speed |-> 50, full_circle_time_ms |-> 1800,
       degree_to_duration |-> (45 :> 260 @@ 90 :> 400)] }

\* Mutant: the table is looked up with the signed degree.
LookupDurationSigned(degree, calibration) ==
    IF degree \in DOMAIN calibration.degree_to_duration
    THEN calibration.degree_to_duration[degree]
    ELSE (Abs(degree) * calibration.full_circle_time_ms) \div 360

LookupDuration(degree, calibration) ==
    LET abs_degree == Abs(degree)
    IN  IF abs_degree \in DOMAIN calibration.degree_to_duration
        THEN calibration.degree_to_duration[abs_degree]
        ELSE (abs_degree * calibration.full_circle_time_ms) \div 360

\* The two output parameters of DegreeToServoParams.
DegreeToServoParams(degree, calibration) ==
    LET direction == IF degree >= 0 THEN 1 ELSE -1
    IN  [out_speed |-> direction * calibration.speed,
         out_duration |-> LookupDuration(degree, calibration)]

\* The arguments of a call are drawn at the start; one function is applied.
InitMapper ==
    /\ \E d \in DegreeArgs, c \in Calibrations :
          mapper = [NoMapping EXCEPT !.degree = d, !.calibration = c]
    /\ initialized = [ch \in Channels |-> FALSE]
    /\ reverse = [ch \in Channels |-> FALSE]
    /\ pwm_range = [ch \in Channels |-> default_pwm_range]
    /\ current_speed = [ch \in Channels |-> 0]
    /\ cmpr = [ch \in Channels |-> 0]
    /\ hw = [ch \in Channels |-> NoObject]
    /\ AtRest
    /\ faulty = FALSE

CallLookupDuration ==
    /\ mapper.fn = "none"
    /\ mapper' = [mapper EXCEPT
                    !.fn = "LookupDuration",
                    !.out_duration = LookupDuration(mapper.degree, mapper.calibration)]
    /\ UNCHANGED <<initialized, reverse, pwm_range, current_speed, cmpr,
                   faulty, threads, last, log, elapsed, hw>>

CallDegreeToServoParams ==
    /\ mapper.fn = "none"
    /\ LET out == DegreeToServoParams(mapper.degree, mapper.calibration)
       IN  mapper' = [mapper EXCEPT !.fn = "DegreeToServoParams",
                                    !.out_speed = out.out_speed,
                                    !.out_duration = out.out_duration]
    /\ UNCHANGED <<initialized, reverse, pwm_range, current_speed, cmpr,
                   faulty, threads, last, log, elapsed, hw>>

NextMapper == CallLookupDuration \/ CallDegreeToServoParams

SpecMapper == InitMapper /\ [][NextMapper]_vars

\* ------------------------------ construction and destruction of a channel
\* The steps of setup_pwm, in the order of the code: 1 mcpwm_new_operator,
\* 2 mcpwm_operator_connect_timer, 3 mcpwm_new_comparator,
\* 4 mcpwm_new_generator, 5 mcpwm_comparator_set_compare_value,
\* 6 mcpwm_generator_set_action_on_timer_event,
\* 7 mcpwm_generator_set_action_on_compare_event.
\* The handle a successful step allocates.
Allocates(k) ==
    CASE k = 1 -> <<"oper">>
      [] k = 3 -> <<"cmpr">>
      [] k = 4 -> <<"gen">>
      [] OTHER -> <<>>

\* Mutant: a failure of the timer connection or of the comparator allocation
\* leaves the operator allocated.
FailureReleasesLeaky(k) ==
    CASE k \in {1, 2, 3} -> <<>>
      [] k = 4 -> <<"cmpr", "oper">>
      [] OTHER -> <<"gen", "cmpr", "oper">>

\* The handles the failure branch of step k deletes and sets to nullptr, in
\* the order of the code.
FailureReleases(k) ==
    CASE k = 1 -> <<>>
      [] k \in {2, 3} -> <<"oper">>
      [] k = 4 -> <<"cmpr", "oper">>
      [] OTHER -> <<"gen", "cmpr", "oper">>

\* mcpwm_del_operator, mcpwm_del_comparator, mcpwm_del_generator.
Del(h, name) ==
    IF h[name] = "held" THEN [h EXCEPT ![name] = "deleted"]
    ELSE [h EXCEPT !.bad = TRUE]

RECURSIVE DelAll(_, _, _)
DelAll(h, names, nullify) ==
    IF names = <<>> THEN h
    ELSE LET d == Del(h, Head(names))
         IN  DelAll(IF nullify THEN [d EXCEPT ![Head(names)] = "null"] ELSE d,
                    Tail(names), nullify)

RECURSIVE Acquire(_, _)
Acquire(h, names) ==
    IF names = <<>> THEN h
    ELSE Acquire([h EXCEPT ![Head(names)] = "held"], Tail(names))

\* The handles the destructor's tests `if (gen_)`, `if (cmpr_)`, `if (oper_)`
\* let through: a held or dangling handle is not null, a member never written
\* is whatever the memory held (garbage: it happens to be non-null).
DtorDeletes(h, garbage) ==
    SelectSeq(<<"gen", "cmpr", "oper">>,
              LAMBDA n : h[n] \in {"held", "deleted"} \/ (h[n] = "unset" /\ garbage))

\* The owner builds and deletes its channels one after another on one thread.
Quiet ==
    /\ CallerIdle
    /\ \A ch \in Channels : hw[ch].pc \in {"none", "constructed", "used", "destroyed"}

\* Servo360::Servo360 up to the call of setup_pwm (lines 20-34).  Without a
\* GPIO or a timer the constructor returns at once and pwm_range_ is never
\* written.
Construct(ch) ==
    /\ Quiet
    /\ hw[ch].pc = "none"
    /\ \E valid \in BOOLEAN, rev \in BOOLEAN,
          range \in {default_pwm_range, custom_pwm_range} :
          /\ reverse' = [reverse EXCEPT ![ch] = rev]
          /\ pwm_range' = [pwm_range EXCEPT ![ch] = range]
          /\ hw' = [hw EXCEPT ![ch] =
                      IF valid
                      THEN [NoObject EXCEPT !.pc = "setup", !.step = 1]
                      ELSE [NoObject EXCEPT !.pc = "constructed", !.valid = FALSE]]
    /\ initialized' = [initialized EXCEPT ![ch] = FALSE]
    /\ current_speed' = [current_speed EXCEPT ![ch] = 0]
    /\ UNCHANGED <<cmpr, faulty, threads, last, log, elapsed, mapper>>

\* One call of setup_pwm (lines 56-113) and the branch on its result.
SetupPwmStep(ch) ==
    /\ hw[ch].pc = "setup"
    /\ LET k == hw[ch].step
           h == hw[ch]
       IN  /\ initialized' = IF k = 1 THEN [initialized EXCEPT ![ch] = FALSE]
                             ELSE initialized
           /\ \E ok \in BOOLEAN :
                 IF ok
                 THEN /\ hw' = [hw EXCEPT ![ch] =
                                  [Acquire(h, Allocates(k)) EXCEPT
                                      !.pc = IF k = 7 THEN "returned" ELSE "setup",
                                      !.step = IF k = 7 THEN 0 ELSE k + 1]]
                      /\ cmpr' = IF k = 5
                                 THEN [cmpr EXCEPT ![ch] = pwm_range[ch].stop]
                                 ELSE cmpr
                 ELSE /\ hw' = [hw EXCEPT ![ch] =
                                  [DelAll(h, FailureReleases(k), TRUE) EXCEPT
                                      !.pc = "returned", !.step = 0,
                                      !.failed_at = k]]
                      /\ cmpr' = [cmpr EXCEPT ![ch] = 0]
    /\ UNCHANGED <<reverse, pwm_range, current_speed, faulty, threads, last,
                   log, elapsed, mapper>>

\* The constructor after setup_pwm (lines 35-42): initialized_ = true when it
\* succeeded, then stop().
SetupPwmReturned(ch) ==
    /\ hw[ch].pc = "returned"
    /\ initialized' = [initialized EXCEPT ![ch] = (hw[ch].failed_at = 0)]
    /\ threads' = [threads EXCEPT ![Caller].ops = <<StopOp(ch)>>]
    /\ hw' = [hw EXCEPT ![ch].pc = "constructed"]
    /\ UNCHANGED <<reverse, pwm_range, current_speed, cmpr, faulty, last, log,
                   elapsed, mapper>>

\* The owner drives the channel it built.
UseChannel(ch) ==
    /\ Quiet
    /\ hw[ch].pc = "constructed"
    /\ threads' = [threads EXCEPT ![Caller].ops = <<SetSpeedOp(ch, 40)>>]
    /\ hw' = [hw EXCEPT ![ch].pc = "used"]
    /\ UNCHANGED <<initialized, reverse, pwm_range, current_speed, cmpr,
                   faulty, last, log, elapsed, mapper>>

\* The tasks that hold a pointer to the object and have calls of its methods
\* still to make.
Orphans(ch) == {t \in TaskIds : PendingOn(t, ch)}

\* Servo360::~Servo360 (lines 45-54): nothing when not initialized, else
\* stop() first.
Destroy(ch) ==
    /\ Quiet
    /\ hw[ch].pc \in {"constructed", "used"}
    /\ IF initialized[ch]
       THEN /\ threads' = [threads EXCEPT ![Caller].ops = <<StopOp(ch)>>]
            /\ hw' = [hw EXCEPT ![ch].pc = "dtor"]
       ELSE /\ hw' = [hw EXCEPT ![ch].pc = "destroyed",
                                ![ch].orphans = Orphans(ch)]
            /\ UNCHANGED threads
    /\ UNCHANGED <<initialized, reverse, pwm_range, current_speed, cmpr,
                   faulty, last, log, elapsed, mapper>>

\* The destructor after stop() (lines 49-51): the generator, the comparator
\* and the operator are deleted when their handles are not null.
DestroyRelease(ch) ==
    /\ hw[ch].pc = "dtor"
    /\ CallerIdle
    /\ \E garbage \in BOOLEAN :
          hw' = [hw EXCEPT ![ch] =
                   [DelAll(hw[ch], DtorDeletes(hw[ch], garbage), FALSE) EXCEPT
                       !.pc = "destroyed", !.orphans = Orphans(ch)]]
    /\ cmpr' = [cmpr EXCEPT ![ch] = 0]
    /\ UNCHANGED <<initialized, reverse, pwm_range, current_speed, faulty,
                   threads, last, log, elapsed, mapper>>

InitSetup ==
    /\ initialized = [ch \in Channels |-> FALSE]
    /\ reverse = [ch \in Channels |-> FALSE]
    /\ pwm_range = [ch \in Channels |-> default_pwm_range]
    /\ current_speed = [ch \in Channels |-> 0]
    /\ cmpr = [ch \in Channels |-> 0]
    /\ hw = [ch \in Channels |-> NoObject]
    /\ mapper = NoMapping
    /\ AtRest
    /\ faulty = FALSE

NextSetup ==
    \/ \E ch \in Channels : Construct(ch)
    \/ \E ch \in Channels : SetupPwmStep(ch)
    \/ \E ch \in Channels : SetupPwmReturned(ch)
    \/ \E ch \in Channels : UseChannel(ch)
    \/ \E ch \in Channels : Destroy(ch)
    \/ \E ch \in Channels : DestroyRelease(ch)
    \/ SetSpeedCall(Caller)
    \/ StopCall(Caller)
    \/ SetSpeedAssign(Caller)
    \/ SetSpeedWrite(Caller)

SpecSetup == InitSetup /\ [][NextSetup]_vars


\* -------------------- a client that does not wait for quick_action's task
OverlapSpeeds == {-40, 3, 40}
OverlapDurations == {40, 100, 150, 300}

\* The task has not yet finished its vTaskDelay: less than 100 ms have passed
\* since quick_action created it.
Delaying(t, ch) ==
    /\ PendingOn(t, ch)
    /\ \/ threads[t].sleep > 0
       \/ \E i \in 1 .. Len(threads[t].ops) : threads[t].ops[i].k = "sleep"

\* The caller calls a blocking method of the channel right after quick_action
\* has returned, while the task quick_action created is still delaying.
CallDuringQuickWindow(op, ch, speed, dur, prog) ==
    /\ CallerIdle
    /\ last.op = "quick_action"
    /\ last.done
    /\ \E t \in TaskIds : Delaying(t, ch)
    /\ threads' = [threads EXCEPT ![Caller].ops = prog \o <<RetOp(TRUE)>>]
    /\ last' = [op |-> op, tgt |-> ch, speed |-> speed, dur |-> dur,
                count |-> 0, pre_cs |-> current_speed, pre_cmpr |-> cmpr,
                done |-> FALSE, ret |-> FALSE, spawned |-> <<>>,
                before |-> <<[op |-> last.op, tgt |-> last.tgt]>>]
    /\ log' = EmptyLog
    /\ elapsed' = 0
    /\ UNCHANGED <<chanVars, current_speed, cmpr, faulty>>

NextOverlap ==
    \/ \E s \in OverlapSpeeds :
          /\ FreeTaskIds # {}
          /\ Call("quick_action", ApiChannel, s, QuickStopDelay, 0,
                  quick_action(ApiChannel, s, QuickStopDelay))
    \/ \E s \in OverlapSpeeds, d \in OverlapDurations :
          CallDuringQuickWindow("run_for", ApiChannel, s, d, run_for(ApiChannel, s, d))
    \/ \E s \in OverlapSpeeds, d \in OverlapDurations :
          CallDuringQuickWindow("salute", ApiChannel, s, d, salute(ApiChannel, s, d))
    \/ \E s \in OverlapSpeeds, d \in OverlapDurations :
          Call("run_for", ApiChannel, s, d, 0, run_for(ApiChannel, s, d))
    \/ Forget
    \/ \E t \in ThreadIds :
          \/ SetSpeedCall(t)
          \/ StopCall(t)
          \/ SetSpeedAssign(t)
          \/ SetSpeedWrite(t)
          \/ Sleep(t)
          \/ Spawn(t)
          \/ Return(t)
          \/ Exit(t)
    \/ Tick

SpecOverlap == Init /\ [][NextOverlap]_vars

\* --------------------------------------------- teardown of the controller
\* Neither destructor has started.
Alive == \A ch \in Channels : hw[ch].pc = "constructed"

\* The thread is about to call a method of a deleted Servo360 object.
OnDeleted(t) ==
    /\ Runnable(t)
    /\ HeadOp(t).k \in {"set_speed", "stop", "raw"}
    /\ hw[HeadOp(t).ch].pc = "destroyed"

\* Mutant: a task whose channel is gone drops its remaining calls.
UseAfterDeleteGuarded(t) ==
    /\ OnDeleted(t)
    /\ threads' = Popped(t)
    /\ UNCHANGED <<initialized, reverse, pwm_range, mapper, hw, current_speed,
                   cmpr, faulty, last, log, elapsed>>

\* A method called through a pointer to a deleted object reads and writes
\* freed memory: the call may appear to return, or the task faults.
UseAfterDelete(t) ==
    /\ OnDeleted(t)
    /\ hw' = [hw EXCEPT ![HeadOp(t).ch].dangling = TRUE]
    /\ \E faults \in BOOLEAN :
          threads' = IF faults /\ t # Caller
                     THEN [threads EXCEPT ![t] = NoThread]
                     ELSE Popped(t)
    /\ UNCHANGED <<initialized, reverse, pwm_range, mapper, current_speed,
                   cmpr, faulty, last, log, elapsed>>

\* ServoMcpController::~ServoMcpController (lines 1261-1278): delete
\* left_servo_, then delete right_servo_, once the last handler has returned.
\* Nothing in it looks at the tasks.
TeardownDelete(ch) ==
    /\ last.done
    /\ ch = "right" => hw["left"].pc = "destroyed"
    /\ ch = "left" => hw["right"].pc = "constructed"
    /\ Destroy(ch)

NextTeardown ==
    \/ Alive /\ CmdQuickSet
    \/ Alive /\ CmdSet
    \/ \E ch \in Channels : TeardownDelete(ch)
    \/ \E ch \in Channels : DestroyRelease(ch)
    \/ \E t \in ThreadIds :
          /\ ~OnDeleted(t)
          /\ \/ SetSpeedCall(t)
             \/ StopCall(t)
             \/ SetSpeedAssign(t)
             \/ SetSpeedWrite(t)
             \/ Sleep(t)
             \/ Spawn(t)
             \/ Return(t)
             \/ Exit(t)
    \/ \E t \in ThreadIds : UseAfterDelete(t)
    \/ Tick

SpecTeardown == InitCoord /\ [][NextTeardown]_vars

\* ------------------------------- quick_action as the last call on a channel
\* The client brings the channel to some state with set_speed and
\* set_raw_pulse_width, calls quick_action and then leaves the channel alone.
QuickSpeeds == {-150, -2, 0, 2, 3, 40}

LastQuickAction ==
    \E s \in QuickSpeeds :
        /\ FreeTaskIds # {}
        /\ Call("quick_action", ApiChannel, s, 150, 0,
                quick_action(ApiChannel, s, 150))

NextQuick ==
    \/ CallSetSpeed
    \/ CallSetRawPulseWidth
    \/ LastQuickAction
    \/ last.op # "quick_action" /\ Forget
    \/ \E t \in ThreadIds :
          \/ SetSpeedCall(t)
          \/ StopCall(t)
          \/ SetSpeedAssign(t)
          \/ SetSpeedWrite(t)
          \/ RawCall(t)
          \/ RawAssign(t)
          \/ Sleep(t)
          \/ Spawn(t)
          \/ Return(t)
          \/ Exit(t)
    \/ Tick

\* The FreeRTOS scheduler runs every ready thread and the tick interrupt
\* wakes the sleeping ones.
SpecQuick ==
    /\ Init
    /\ [][NextQuick]_vars
    /\ WF_vars(\E t \in ThreadIds : Step(t))
    /\ WF_vars(Tick)

\* --------------------------- commands and their tasks under fair scheduling
\* Up to MaxCmds commands of the blocking tools and of quick_set, at a speed
\* above and a speed below the deadband width, then no further command.
QuiesceTargets == {"left", "both"}
QuiesceSpeeds == {2, 80}
QuiesceDurations == {100}

NextQuiesce ==
    \/ \E tg \in QuiesceTargets, s \in QuiesceSpeeds, d \in QuiesceDurations :
          Command("set", tg, s, d, 0, tool_set(tg, s, d))
    \/ \E tg \in QuiesceTargets, s \in QuiesceSpeeds, d \in QuiesceDurations :
          Command("quick_set", tg, s, d, 0,
                  tool_quick_set(tg, s, d))
    \/ \E tg \in QuiesceTargets, s \in QuiesceSpeeds, d \in QuiesceDurations :
          Command("wave", tg, s, d, 1,
                  tool_wave(tg, 1, s, d))
    \/ \E tg \in QuiesceTargets, s \in QuiesceSpeeds, d \in QuiesceDurations :
          Command("salute", tg, s, d, 0,
                  tool_salute(tg, s, d))
    \/ \E tg \in QuiesceTargets, s \in QuiesceSpeeds, d \in QuiesceDurations :
          Command("back_and_forth", tg, s, d, 1,
                  tool_back_and_forth(tg, s, d, 1))
    \/ \E t \in ThreadIds :
          \/ SetSpeedCall(t)
          \/ StopCall(t)
          \/ SetSpeedAssign(t)
          \/ SetSpeedWrite(t)
          \/ Sleep(t)
          \/ Spawn(t)
          \/ Return(t)
          \/ Exit(t)
    \/ Tick

SpecQuiesce ==
    /\ InitCoord
    /\ [][NextQuiesce]_vars
    /\ WF_vars(\E t \in ThreadIds : Step(t))
    /\ WF_vars(Tick)

\* ================================================================= claims
\* The call named op has returned to the caller of the channel.
Returned(op) == last.op = op /\ last.done

LastEvent(ch) == log[ch][Len(log[ch])]

\* The speed a request stands for, as the claims state it: negated on a
\* reversed channel, then clamped to [-100,100].
ClaimedEffective(ch, s) ==
    LET n == IF reverse[ch] THEN -s ELSE s
    IN  IF n > 100 THEN 100 ELSE IF n < -100 THEN -100 ELSE n

\* The pulse width of a speed under the default range, as C3 states it.
ClaimedPulse(s) ==
    IF s = 0 THEN 1500
    ELSE IF s > 0 THEN 1500 + (500 * s) \div 100
    ELSE 1500 - (500 * (-s)) \div 100

\* C1: every run_for(speed, d) with d > 0 on an initialized channel returns
\* with current_speed 0 and the stop pulse width as the last pulse written,
\* whatever the speed and the state of the channel before the call.
C1_RunForEndsStopped ==
    (Returned("run_for") /\ last.dur > 0 /\ initialized[last.tgt]) =>
        /\ current_speed[last.tgt] = 0
        /\ cmpr[last.tgt] = pwm_range[last.tgt].stop
        /\ log[last.tgt] # <<>>
        /\ LastEvent(last.tgt) = <<"w", pwm_range[last.tgt].stop>>

\* A run_for whose own set_speed fell into the deadband (the channel was
\* already at speed 3 when 5 was requested) and that still ended stopped.
C1_Witness ==
    /\ Returned("run_for")
    /\ last.dur > 0
    /\ initialized[last.tgt]
    /\ last.pre_cs[last.tgt] = 3
    /\ last.speed = 5
    /\ ~reverse[last.tgt]
    /\ current_speed[last.tgt] = 0

\* C2: set_speed on an initialized channel writes nothing and keeps
\* current_speed when the effective speed is less than 3 away from it;
\* otherwise current_speed becomes the effective speed and its pulse is
\* written.  From 40, set_speed(42) changes nothing and set_speed(44) gives 44.
C2_SetSpeedDeadband ==
    (Returned("set_speed") /\ initialized[last.tgt]) =>
        LET ch == last.tgt
            eff == ClaimedEffective(ch, last.speed)
            pre == last.pre_cs[ch]
        IN  /\ IF Abs(eff - pre) < 3
               THEN /\ current_speed[ch] = pre
                    /\ cmpr[ch] = last.pre_cmpr[ch]
                    /\ log[ch] = <<>>
               ELSE /\ current_speed[ch] = eff
                    /\ cmpr[ch] = SpeedToPulse(pwm_range[ch], eff)
                    /\ log[ch] = << <<"w", SpeedToPulse(pwm_range[ch], eff)>> >>
            /\ (pre = 40 /\ ~reverse[ch] /\ last.speed = 42) =>
                   (current_speed[ch] = 40 /\ log[ch] = <<>>)
            /\ (pre = 40 /\ ~reverse[ch] /\ last.speed = 44) =>
                   (current_speed[ch] = 44 /\ Len(log[ch]) = 1)

C2_Witness ==
    /\ Returned("set_speed")
    /\ initialized[last.tgt]
    /\ ~reverse[last.tgt]
    /\ last.pre_cs[last.tgt] = 40
    /\ last.speed = 42
    /\ current_speed[last.tgt] = 40

\* C3: under the default range the pulse width written for a speed s in
\* [-100,100] is 1500 for 0, 1500 + (500*s) div 100 for s > 0 and
\* 1500 - (500*(-s)) div 100 for s < 0; 50 gives 1750, -50 gives 1250.
C3_SpeedToPulseDefault ==
    (Returned("set_speed") /\ log[last.tgt] # <<>>) =>
        LET ch == last.tgt
            s == current_speed[ch]
        IN  /\ s \in -100 .. 100
            /\ s = ClaimedEffective(ch, last.speed)
            /\ log[ch] = << <<"w", ClaimedPulse(s)>> >>
            /\ cmpr[ch] = ClaimedPulse(s)
            /\ (s = 50 => cmpr[ch] = 1750)
            /\ (s = -50 => cmpr[ch] = 1250)
            /\ (s = 0 => cmpr[ch] = 1500)

C3_Witness ==
    /\ Returned("set_speed")
    /\ last.speed = -50
    /\ last.pre_cs[last.tgt] = 50
    /\ cmpr[last.tgt] = 1250

\* C4 (as claimed): whenever a call has returned, the compare value of an
\* initialized channel is the pulse width of its current_speed.
C4_SpeedReflectsPulse ==
    (last.done /\ last.op # "none" /\ initialized[last.tgt]) =>
        /\ current_speed[last.tgt] \in -100 .. 100
        /\ cmpr[last.tgt] = SpeedToPulse(pwm_range[last.tgt], current_speed[last.tgt])

\* C5 (as claimed): current_speed stays within [-100,100].
C5_SpeedInRange ==
    \A ch \in Channels : current_speed[ch] \in -100 .. 100

\* The inverse of the speed mapping, as C6 states it.
ClaimedSpeedOfPulse(r, p) ==
    IF p = r.stop THEN 0
    ELSE IF p > r.stop THEN ((p - r.stop) * 100) \div (r.max_fwd - r.stop)
    ELSE -(((r.stop - p) * 100) \div (r.stop - r.max_rev))

\* C6 (as claimed): set_raw_pulse_width(p), p in [1000,2000], leaves
\* current_speed at the inverse of the speed mapping; 1250 gives -50 and
\* 1750 gives 50 under the default range.
C6_RawEstimateIsInverse ==
    (/\ Returned("set_raw_pulse_width")
     /\ initialized[last.tgt]
     /\ last.speed \in 1000 .. 2000) =>
        current_speed[last.tgt] = ClaimedSpeedOfPulse(pwm_range[last.tgt], last.speed)

\* C7 (as claimed): a set_speed whose pulse width the comparator rejected
\* leaves current_speed as it was before the call.
C7_RejectedWriteKeepsSpeed ==
    (/\ Returned("set_speed")
     /\ initialized[last.tgt]
     /\ log[last.tgt] # <<>>
     /\ LastEvent(last.tgt)[1] = "rejected") =>
        current_speed[last.tgt] = last.pre_cs[last.tgt]

\* The tools whose work is one blocking primitive or gesture per channel.
BlockingTools == {"set", "wave", "raise", "salute", "back_and_forth"}

\* The threads that still have operations for a channel.
ActingOn(ch) == {t \in ThreadIds : PendingOn(t, ch)}

\* C8 (as claimed): in every sequence of set, wave, raise, salute and
\* back_and_forth commands, whatever their targets, at most one execution
\* acts on a channel at a time: the next command does not start on a channel
\* before the previous command's work on it has ended.
C8_SameChannelOrdering ==
    (\A i \in 1 .. Len(Issued) : Issued[i].op \in BlockingTools) =>
        \A ch \in Channels : Cardinality(ActingOn(ch)) <= 1

\* C8 (amended): when every command so far is a set, wave, raise, salute,
\* back_and_forth or calibrate with target left or right, the work runs on
\* the calling context only, so no two executions ever act on a channel and
\* a command starts only after the previous one has returned.
C8_SingleTargetOrdering ==
    (\A i \in 1 .. Len(Issued) :
        /\ Issued[i].op \in BlockingTools \cup {"calibrate"}
        /\ Issued[i].tgt \in Channels) =>
        /\ LiveTasks = {}
        /\ \A ch \in Channels : ActingOn(ch) \subseteq {Caller}
        /\ last.spawned = <<>>

\* The second of two set commands on the left channel, in the middle of its
\* run_for on the calling context.
C8_Witness ==
    /\ Len(Issued) = 2
    /\ Issued[1] = [op |-> "set", tgt |-> "left"]
    /\ Issued[2] = [op |-> "set", tgt |-> "left"]
    /\ ~last.done
    /\ elapsed > 0
    /\ ActingOn("left") = {Caller}

\* A handler invoked with a valid both target has returned true.
ReturnedBoth(op) ==
    /\ last.op = op
    /\ normalize_target(last.tgt) = "both"
    /\ last.done
    /\ last.ret

\* The channels a task body works on.
ChannelsOf(prog) ==
    {prog[i].ch : i \in {j \in 1 .. Len(prog) :
                            prog[j].k \in {"set_speed", "stop", "raw"}}}

AllTools == BlockingTools \cup {"quick_set", "test_direction", "calibrate"}

\* C9 (as claimed): every tool invoked with target both on two initialized
\* channels has, when it returns true, created two tasks, the first working
\* on the left channel only and the second on the right channel only.
C9_BothLaunchesTwo ==
    \A op \in AllTools :
        (/\ ReturnedBoth(op)
         /\ \A ch \in Channels : initialized[ch]
         /\ (op = "quick_set" => last.dur > 0)) =>
            /\ Len(last.spawned) = 2
            /\ ChannelsOf(last.spawned[1]) = {"left"}
            /\ ChannelsOf(last.spawned[2]) = {"right"}

\* The primitive or gesture a blocking tool runs on a channel.
WorkOf(op, ch) ==
    CASE op = "set" -> run_for(ch, last.speed, last.dur)
      [] op = "wave" -> wave(ch, last.speed, last.dur, last.count)
      [] op = "raise" -> raise_arm(ch, last.speed, last.dur)
      [] op = "salute" -> salute(ch, last.speed, last.dur)
      [] op = "back_and_forth" ->
            back_and_forth(ch, last.speed, last.dur, last.count)

\* C9 (amended): with target both, set, wave, raise, salute and
\* back_and_forth create two tasks, one per channel, each running the same
\* primitive or gesture with the same arguments; quick_set sets both speeds
\* on the calling context and creates one stop task per moving channel;
\* test_direction creates a single task that drives the left channel and
\* then the right one; calibrate writes both channels on the calling context
\* and creates no task.  No handler sleeps before it returns.
C9_BothDispatch ==
    /\ \A op \in BlockingTools :
          ReturnedBoth(op) =>
              last.spawned = <<WorkOf(op, "left") \o <<ExitOp>>,
                               WorkOf(op, "right") \o <<ExitOp>> >>
    /\ ReturnedBoth("quick_set") =>
          /\ Len(last.spawned) =
                Cardinality({ch \in Channels : initialized[ch] /\ last.dur > 0})
          /\ \A i \in 1 .. Len(last.spawned) :
                \E ch \in Channels :
                    last.spawned[i] = <<SleepOp(ch, 100), StopOp(ch), ExitOp>>
    /\ ReturnedBoth("test_direction") =>
          /\ Len(last.spawned) = 1
          /\ ChannelsOf(last.spawned[1]) = {ch \in Channels : initialized[ch]}
    /\ ReturnedBoth("calibrate") =>
          /\ last.spawned = <<>>
          /\ \A ch \in Channels :
                initialized[ch] =>
                    \E i \in 1 .. Len(log[ch]) : log[ch][i] = <<"r", last.speed>>
    /\ (last.op \in AllTools /\ normalize_target(last.tgt) = "both" /\ ~last.done) =>
          (elapsed = 0 /\ threads[Caller].sleep = 0)

\* set(both) has returned while its two tasks, one per channel, still have
\* their run_for to do.
C9_Witness ==
    /\ ReturnedBoth("set")
    /\ Len(last.spawned) = 2
    /\ elapsed = 0
    /\ \E t1 \in TaskIds, t2 \in TaskIds :
          /\ t1 # t2
          /\ PendingOn(t1, "left")
          /\ PendingOn(t2, "right")
          /\ ~PendingOn(t1, "right")
          /\ ~PendingOn(t2, "left")

\* One forward/reverse cycle of wave(80, 400) as a channel shows it: pulse
\* 1900, 400 ms, stop, pause, pulse 1100, 400 ms, stop, pause.
WaveCycleEvents ==
    << <<"w", 1900>>, <<"s", 100>>, <<"s", 100>>, <<"s", 100>>, <<"s", 100>>,
       <<"w", 1500>>, <<"s", 100>>,
       <<"w", 1100>>, <<"s", 100>>, <<"s", 100>>, <<"s", 100>>, <<"s", 100>>,
       <<"w", 1500>>, <<"s", 100>> >>

\* wave(both, 80, 400, 3) has settled: the handler has returned and its
\* tasks are gone.
WaveSettled == last.op = "wave" /\ last.done /\ LiveTasks = {}

\* C10: after wave(both, 80, 400, 3) alone, the handler returns at time 0
\* while both tasks still have their motion to do; whenever time passes the
\* two channels are at the same speed (they move together); the command
\* settles exactly 3000 ms after it was issued, each channel having done
\* exactly three cycles and standing at speed 0 with the stop pulse.
C10_WaveBothScenario ==
    (last.op = "wave") =>
        /\ ~last.done => elapsed = 0
        /\ (last.done /\ elapsed = 0) =>
              \A ch \in Channels : \E t \in TaskIds : PendingOn(t, ch)
        /\ (\A t \in ThreadIds : ~Runnable(t)) =>
              current_speed["left"] = current_speed["right"]
        /\ elapsed <= 3000
        /\ WaveSettled =>
              /\ elapsed = 3000
              /\ last.ret
              /\ Len(last.spawned) = 2
              /\ \A ch \in Channels :
                    /\ current_speed[ch] = 0
                    /\ cmpr[ch] = 1500
                    /\ log[ch] = WaveCycleEvents \o WaveCycleEvents \o WaveCycleEvents

\* The settled state, the first cycle of each channel being behind it.
C10_Witness ==
    /\ WaveSettled
    /\ elapsed = 3000
    /\ \A ch \in Channels : Len(log[ch]) = 42 /\ current_speed[ch] = 0

\* Both channels at speed 80 while the handler has returned.
C10_Overlap ==
    /\ last.op = "wave"
    /\ last.done
    /\ current_speed["left"] = 80
    /\ current_speed["right"] = 80

\* The tools that take a duration, and those whose gesture needs a non-zero
\* speed and a positive count.
DurationTools ==
    {"set", "quick_set", "wave", "raise", "salute", "back_and_forth",
     "test_direction"}

GestureTools == {"wave", "back_and_forth"}

\* The last command has a valid target and an invalid other argument, as C11
\* lists them.
ClaimedInvalidArgs ==
    /\ normalize_target(last.tgt) \in {"left", "right", "both"}
    /\ \/ last.op \in DurationTools /\ last.dur <= 0
       \/ last.op \in GestureTools /\ (last.speed = 0 \/ last.count <= 0)
       \/ last.op = "calibrate" /\ last.speed \notin 1000 .. 2000
       \/ last.op = "fine_tune"
            /\ (last.speed < 1000 \/ last.dur > 2000 \/ last.count <= 0)

\* The last command has changed nothing: no write, no change of speed, no task.
NoSideEffect ==
    /\ current_speed = last.pre_cs
    /\ cmpr = last.pre_cmpr
    /\ log = EmptyLog
    /\ last.spawned = <<>>
    /\ LiveTasks = {}
    /\ elapsed = 0

\* C11 (as claimed): a command with a valid target and an invalid duration,
\* speed, count or pulse width returns false and has no side effect.
C11_InvalidInputRejected ==
    (last.done /\ ClaimedInvalidArgs) => (~last.ret /\ NoSideEffect)

\* C12: a command whose target does not resolve to left, right or both
\* returns false, and from its invocation on changes neither channel's
\* current_speed nor its pulse width and creates no task.
C12_InvalidTargetRejected ==
    (last.op # "none" /\ normalize_target(last.tgt) \notin {"left", "right", "both"}) =>
        /\ last.done => ~last.ret
        /\ NoSideEffect
        /\ \A t \in ThreadIds : ~Runnable(t) => threads[t].ops = <<>>

\* set with target "foo" has returned false, after a calibration had left the
\* left channel away from its stop pulse width.
C12_Witness ==
    /\ last.op = "set"
    /\ last.tgt = "foo"
    /\ last.done
    /\ ~last.ret
    /\ cmpr["left"] = 1510


\* The operations of a channel, as C13 lists them.
ChannelOps ==
    {"set_speed", "stop", "run_for", "quick_action", "raise_arm", "wave",
     "salute", "back_and_forth", "set_raw_pulse_width"}

\* The channel is as the failed constructor left it and nothing has run on
\* it: no write, no sleep, no task, no time spent by the caller.
UntouchedChannel(ch) ==
    /\ current_speed[ch] = 0
    /\ cmpr[ch] = 0
    /\ log[ch] = <<>>
    /\ last.spawned = <<>>
    /\ LiveTasks = {}
    /\ \A t \in ThreadIds : threads[t].sleep = 0
    /\ elapsed = 0

\* C13: on a channel whose initialized flag is false no operation writes to
\* the hardware or changes current_speed, none blocks or spawns a task, and
\* the flag never becomes true.
C13_UninitializedIsNoOp ==
    /\ [](~initialized[ApiChannel] =>
            /\ last.op \in ChannelOps \cup {"none"}
            /\ UntouchedChannel(ApiChannel))
    /\ [][~initialized[ApiChannel] => ~initialized'[ApiChannel]]_vars

\* A wave with arguments that would move an initialized channel has returned
\* on a channel that is not initialized.
C13_Witness ==
    /\ ~initialized[ApiChannel]
    /\ Returned("wave")
    /\ last.speed = 40 /\ last.dur = 150 /\ last.count = 2


\* The pulse width lies in the channel's own PWM range.
InOwnRange(ch, pulse) ==
    pulse >= pwm_range[ch].max_rev /\ pulse <= pwm_range[ch].max_fwd

\* C14: no operation writes a pulse width outside [maxReverse, maxForward]
\* of the channel's own PWM range, for the default range and for a custom
\* range narrower than [1000,2000]: the compare value of an initialized
\* channel and every pulse width handed to the comparator stay in the range.
C14_WritesWithinOwnRange ==
    initialized[ApiChannel] =>
        /\ InOwnRange(ApiChannel, cmpr[ApiChannel])
        /\ \A i \in 1 .. Len(log[ApiChannel]) :
              log[ApiChannel][i][1] \in {"w", "r"} =>
                  InOwnRange(ApiChannel, log[ApiChannel][i][2])


\* The sleeps C15 states for a duration: d div 100 sleeps of 100 ms and one
\* of d mod 100 ms when that is positive.
ClaimedSleeps(d) ==
    [i \in 1 .. (d \div 100) |-> <<"s", 100>>]
    \o (IF d % 100 > 0 THEN << <<"s", d % 100>> >> ELSE <<>>)

RECURSIVE SleepSum(_)
SleepSum(events) ==
    IF events = <<>> THEN 0
    ELSE (IF Head(events)[1] = "s" THEN Head(events)[2] ELSE 0)
         + SleepSum(Tail(events))

IsWrite(ev) == ev[1] = "w"
IsSleep(ev) == ev[1] = "s"

\* C15: run_for(speed, d) with d > 0 on an initialized channel requests
\* d div 100 sleeps of 100 ms plus one of d mod 100 ms when positive, between
\* its set_speed and its stop: the sleeps sum to d, the caller reaches stop()
\* only after d ms have passed, and returns after exactly d ms of sleep.
C15_RunForSleepsSumToDuration ==
    (last.op = "run_for" /\ last.dur > 0 /\ initialized[last.tgt]) =>
        LET ch == last.tgt
            sleeps == SelectSeq(log[ch], IsSleep)
        IN  /\ elapsed <= last.dur
            /\ (Runnable(Caller) /\ HeadOp(Caller).k = "stop") =>
                  /\ elapsed = last.dur
                  /\ sleeps = ClaimedSleeps(last.dur)
            /\ last.done =>
                  /\ sleeps = ClaimedSleeps(last.dur)
                  /\ SleepSum(log[ch]) = last.dur
                  /\ elapsed = last.dur
                  /\ \E first \in {0, 1} :
                        /\ Len(log[ch]) = first + Len(sleeps) + 1
                        /\ first = 1 => IsWrite(log[ch][1])
                        /\ \A i \in 1 .. Len(sleeps) : IsSleep(log[ch][first + i])
                        /\ LastEvent(ch) = <<"w", pwm_range[ch].stop>>

\* A run_for of 230 ms has returned: two sleeps of 100 ms and one of 30 ms.
C15_Witness ==
    /\ Returned("run_for")
    /\ initialized[ApiChannel]
    /\ last.dur = 230
    /\ elapsed = 230
    /\ SelectSeq(log[ApiChannel], IsSleep) = << <<"s", 100>>, <<"s", 100>>, <<"s", 30>> >>


\* The log of a quick_action on a channel: at most one write by its
\* set_speed, then, by the task, one sleep of 100 ms and at most one write.
QuickActionLog(events) ==
    LET writes == SelectSeq(events, IsWrite)
        sleeps == SelectSeq(events, IsSleep)
    IN  /\ Len(events) = Len(writes) + Len(sleeps)
        /\ sleeps \in {<<>>, << <<"s", 100>> >>}
        /\ Len(writes) <= 2
        /\ \A i \in 1 .. Len(events) :
              IsSleep(events[i]) => (i = 1 \/ (i = 2 /\ IsWrite(events[1])))

\* C18: quick_action(speed, d) with d > 0 on an initialized channel calls
\* set_speed once and returns without the caller sleeping; it spawns one
\* task that waits a fixed 100 ms, whatever d is, and then calls stop() on
\* the same channel, so the motion window is 100 ms for every d > 0.
C18_QuickActionFixedWindow ==
    (last.op = "quick_action" /\ last.dur > 0 /\ initialized[last.tgt]) =>
        LET ch == last.tgt
            task == << [k |-> "sleep", ch |-> ch, a |-> 100, p |-> <<>>],
                       [k |-> "stop", ch |-> ch, a |-> 0, p |-> <<>>],
                       ExitOp >>
        IN  /\ threads[Caller].sleep = 0
            /\ elapsed <= 100
            /\ QuickActionLog(log[ch])
            /\ Cardinality({t \in TaskIds : PendingOn(t, ch)}) <= 1
            /\ ~last.done => elapsed = 0
            /\ last.done => last.spawned = <<task>>
            /\ (last.done /\ Solo(ch)) =>
                  /\ elapsed = 100
                  /\ SelectSeq(log[ch], IsSleep) = << <<"s", 100>> >>
                  /\ current_speed[ch] = 0

\* The task of a quick_action of 300 ms has stopped the channel it had set
\* moving, 100 ms after the call.
C18_Witness ==
    /\ Returned("quick_action")
    /\ initialized[ApiChannel]
    /\ last.dur = 300
    /\ last.speed = 40
    /\ LiveTasks = {}
    /\ elapsed = 100
    /\ Len(log[ApiChannel]) = 3
    /\ current_speed[ApiChannel] = 0


\* The speed C16 has run_for work with: the request clamped to [-100,100],
\* then raised to magnitude 5 with the sign of the request.
ClaimedRunSpeed(s) ==
    IF s > 100 THEN 100
    ELSE IF s < -100 THEN -100
    ELSE IF s > 0 /\ s < 5 THEN 5
    ELSE IF s < 0 /\ s > -5 THEN -5
    ELSE s

\* The writes and sleeps of run_for(s, d) on a channel whose current_speed
\* was pre: the write of set_speed(s) unless the deadband holds it back, the
\* sleeps, and the write of stop() unless the deadband holds it back.
ClaimedRunForLog(ch, s, d, pre) ==
    LET eff == ClaimedEffective(ch, s)
        moved == Abs(eff - pre) >= 3
        cs == IF moved THEN eff ELSE pre
    IN  (IF moved THEN << <<"w", SpeedToPulse(pwm_range[ch], eff)>> >> ELSE <<>>)
        \o ClaimedSleeps(d)
        \o (IF Abs(cs) >= 3 THEN << <<"w", pwm_range[ch].stop>> >> ELSE <<>>)

\* C16: run_for clamps the request to [-100,100] and raises a magnitude
\* below 5 to 5 with the sign of the request: for 0 < |speed| < 5 the writes
\* and sleeps of run_for(speed, d) are those of run_for(5, d) when speed > 0
\* and of run_for(-5, d) when speed < 0, from the same state of the channel.
C16_RunForFloorKeepsSign ==
    (Returned("run_for") /\ last.dur > 0 /\ initialized[last.tgt]
        /\ last.speed # 0) =>
        log[last.tgt] = ClaimedRunForLog(last.tgt, ClaimedRunSpeed(last.speed),
                                         last.dur, last.pre_cs[last.tgt])

\* run_for(-2, 150) from rest has written the pulse width of speed -5.
C16_Witness ==
    /\ Returned("run_for")
    /\ last.speed = -2
    /\ last.dur = 150
    /\ initialized[ApiChannel] /\ ~reverse[ApiChannel]
    /\ pwm_range[ApiChannel] = default_pwm_range
    /\ log[ApiChannel] = << <<"w", 1475>>, <<"s", 100>>, <<"s", 50>>, <<"w", 1500>> >>


\* C17: on a channel constructed with reverse=true, set_speed(s) negates s
\* before clamping and before the deadband test: when the negated, clamped
\* value differs from current_speed by 3 or more it becomes current_speed
\* and its pulse width is the one written, otherwise nothing changes;
\* set_speed(30) from rest gives -30 and 1350 under the default range.
C17_ReverseNegatesRequest ==
    (Returned("set_speed") /\ initialized[last.tgt] /\ reverse[last.tgt]) =>
        LET ch == last.tgt
            neg == -last.speed
            eff == IF neg > 100 THEN 100 ELSE IF neg < -100 THEN -100 ELSE neg
            pulse == IF pwm_range[ch] = default_pwm_range
                     THEN ClaimedPulse(eff)
                     ELSE SpeedToPulse(pwm_range[ch], eff)
        IN  IF Abs(eff - last.pre_cs[ch]) >= 3
            THEN /\ current_speed[ch] = eff
                 /\ cmpr[ch] = pulse
                 /\ log[ch] = << <<"w", pulse>> >>
            ELSE /\ current_speed[ch] = last.pre_cs[ch]
                 /\ cmpr[ch] = last.pre_cmpr[ch]
                 /\ log[ch] = <<>>

\* set_speed(30) from rest on a reversed channel with the default range.
C17_Witness ==
    /\ Returned("set_speed")
    /\ initialized[ApiChannel] /\ reverse[ApiChannel]
    /\ pwm_range[ApiChannel] = default_pwm_range
    /\ last.speed = 30
    /\ last.pre_cs[ApiChannel] = 0
    /\ current_speed[ApiChannel] = -30
    /\ cmpr[ApiChannel] = 1350


\* The call has arguments with which wave and back_and_forth do nothing.
GestureIgnored == last.speed = 0 \/ last.dur <= 0 \/ last.count <= 0

\* The call left the channel as it was: no write, no sleep, no task.
NothingDone(ch) ==
    /\ log[ch] = <<>>
    /\ elapsed = 0
    /\ last.spawned = <<>>
    /\ current_speed[ch] = last.pre_cs[ch]
    /\ cmpr[ch] = last.pre_cmpr[ch]

\* The writes of a speed other than 0, in order.
IsMotionWrite(ev) == ev[1] = "w" /\ ev[2] # DefaultStop
MotionWrites(ch) == SelectSeq(log[ch], IsMotionWrite)

\* Every write of a non-zero speed is followed, as the next write, by a
\* write of speed 0.
EachMotionStopped(ch) ==
    LET writes == SelectSeq(log[ch], IsWrite)
    IN  \A i \in 1 .. Len(writes) :
           IsMotionWrite(writes[i]) =>
               (i < Len(writes) /\ writes[i + 1] = <<"w", pwm_range[ch].stop>>)

\* The non-zero writes alternate in sign, the first having the sign of s.
AlternateFrom(ch, s, first) ==
    \A i \in 1 .. Len(MotionWrites(ch)) :
        LET forward == MotionWrites(ch)[i][2] > pwm_range[ch].stop
        IN  forward <=> ((s > 0) <=> ((i + first) % 2 = 0))

\* C19 as stated: wave(speed, d, count) on an initialized channel does
\* nothing when speed = 0, d <= 0 or count <= 0; otherwise the channel's
\* non-zero speed writes are the 2 * count writes of the runs, alternate in
\* sign starting with the sign of speed (taken as set_speed applies it,
\* negated on a reversed channel), each is followed by a write of speed 0,
\* and the channel ends at speed 0.
C19_WaveAsStated ==
    (Returned("wave") /\ initialized[last.tgt]) =>
        IF GestureIgnored THEN NothingDone(last.tgt)
        ELSE /\ Len(MotionWrites(last.tgt)) = 2 * last.count
             /\ AlternateFrom(last.tgt, ClaimedEffective(last.tgt, last.speed), 1)
             /\ EachMotionStopped(last.tgt)
             /\ current_speed[last.tgt] = 0

RECURSIVE ClaimedWaveLog(_, _, _, _, _)
ClaimedWaveLog(ch, s, d, n, pre) ==
    IF n = 0 THEN <<>>
    ELSE ClaimedRunForLog(ch, ClaimedRunSpeed(s), d, pre)
         \o << <<"s", 100>> >>
         \o ClaimedRunForLog(ch, ClaimedRunSpeed(-s), d, 0)
         \o << <<"s", 100>> >>
         \o ClaimedWaveLog(ch, s, d, n - 1, 0)

\* C19 (amended): wave(speed, d, count) on an initialized channel does
\* nothing when speed = 0, d <= 0 or count <= 0; otherwise its writes and
\* sleeps are those of count iterations of run_for(speed, d), 100 ms pause,
\* run_for(-speed, d), 100 ms pause and a final stop(): the non-zero writes
\* alternate in sign, starting with the sign of the speed after reversal,
\* except that the write of the first run is held back when current_speed
\* before the call is within 3 of that run's speed; each non-zero write is
\* followed by a write of speed 0 and the channel ends at speed 0.
C19_WaveSequence ==
    (Returned("wave") /\ initialized[last.tgt]) =>
        IF GestureIgnored THEN NothingDone(last.tgt)
        ELSE LET ch == last.tgt
                 eff == ClaimedEffective(ch, ClaimedRunSpeed(last.speed))
                 held == Abs(eff - last.pre_cs[ch]) < 3
             IN  /\ log[ch] = ClaimedWaveLog(ch, last.speed, last.dur,
                                             last.count, last.pre_cs[ch])
                 /\ elapsed = last.count * (2 * last.dur + 200)
                 /\ Len(MotionWrites(ch)) = 2 * last.count - (IF held THEN 1 ELSE 0)
                 /\ AlternateFrom(ch, eff, IF held THEN 0 ELSE 1)
                 /\ EachMotionStopped(ch)
                 /\ current_speed[ch] = 0
                 /\ cmpr[ch] = pwm_range[ch].stop

\* wave(40, 150, 2) on a channel already running at speed 40: the first
\* run writes nothing, three non-zero writes follow.
C19_Witness ==
    /\ Returned("wave")
    /\ initialized[ApiChannel] /\ ~reverse[ApiChannel]
    /\ last.speed = 40 /\ last.dur = 150 /\ last.count = 2
    /\ last.pre_cs[ApiChannel] = 40
    /\ Len(MotionWrites(ApiChannel)) = 3
    /\ current_speed[ApiChannel] = 0


\* What a sequence of requests leaves on a channel whose current_speed is cs,
\* as C20 and C2 state it: <<"v", s>> is set_speed(s), which writes and takes
\* effect only when it differs from current_speed by 3 or more, <<"s", ms>>
\* is a sleep.  The result is the log and the final current_speed.
RECURSIVE ClaimedRequests(_, _, _)
ClaimedRequests(ch, reqs, cs) ==
    IF reqs = <<>> THEN [log |-> <<>>, cs |-> cs]
    ELSE IF Head(reqs)[1] = "s"
    THEN LET rest == ClaimedRequests(ch, Tail(reqs), cs)
         IN  [log |-> <<Head(reqs)>> \o rest.log, cs |-> rest.cs]
    ELSE LET eff == ClaimedEffective(ch, Head(reqs)[2])
         IN  IF Abs(eff - cs) >= 3
             THEN LET rest == ClaimedRequests(ch, Tail(reqs), eff)
                  IN  [log |-> << <<"w", SpeedToPulse(pwm_range[ch], eff)>> >>
                               \o rest.log,
                       cs |-> rest.cs]
             ELSE ClaimedRequests(ch, Tail(reqs), cs)

\* The requests of back_and_forth(s, d, n) as C20 lists them.
ClaimedBackAndForth(s, d, n) ==
    [i \in 1 .. 4 * n |->
        IF i % 4 = 1 THEN <<"v", s>>
        ELSE IF i % 4 = 3 THEN <<"v", -s>>
        ELSE <<"s", d>>]
    \o << <<"v", 0>> >>

\* C20: back_and_forth(speed, d, count) performs count iterations of
\* set_speed(speed), sleep d, set_speed(-speed), sleep d and ends with
\* stop(); the requests go to set_speed as they are, without the floor of
\* run_for, and one that differs from current_speed by less than 3 writes
\* nothing while the sleeps of 2 * count * d ms still take place.
C20_BackAndForthSequence ==
    (Returned("back_and_forth") /\ initialized[last.tgt]) =>
        IF GestureIgnored THEN NothingDone(last.tgt)
        ELSE LET ch == last.tgt
                 claimed == ClaimedRequests(ch,
                                ClaimedBackAndForth(last.speed, last.dur, last.count),
                                last.pre_cs[ch])
             IN  /\ log[ch] = claimed.log
                 /\ current_speed[ch] = claimed.cs
                 /\ SelectSeq(log[ch], IsSleep) =
                        [i \in 1 .. 2 * last.count |-> <<"s", last.dur>>]
                 /\ elapsed = 2 * last.count * last.dur
                 /\ last.spawned = <<>>

\* back_and_forth(-2, 150, 2) from rest: four sleeps and no write at all.
C20_Witness ==
    /\ Returned("back_and_forth")
    /\ initialized[ApiChannel]
    /\ last.speed = -2 /\ last.dur = 150 /\ last.count = 2
    /\ last.pre_cs[ApiChannel] = 0
    /\ log[ApiChannel] = << <<"s", 150>>, <<"s", 150>>, <<"s", 150>>, <<"s", 150>> >>
    /\ elapsed = 600

\* The time the motion of a tool takes on one channel, from its durations.
ClaimedMotionTime ==
    IF last.op = "wave" THEN last.count * (2 * last.dur + 200)
    ELSE IF last.op = "back_and_forth" THEN 2 * last.count * last.dur
    ELSE IF last.op = "test_direction" THEN 2 * last.dur + 200
    ELSE last.dur

\* The handler of one of the tools has returned true for a single initialized
\* channel, with arguments the primitive or gesture acts on.
SingleTargetDone(tools) ==
    /\ last.op \in tools
    /\ normalize_target(last.tgt) \in Channels
    /\ initialized[normalize_target(last.tgt)]
    /\ last.done /\ last.ret
    /\ last.op \in GestureTools => ~GestureIgnored

\* The motion has run to its end on the calling context: no task was
\* created, the caller slept for the whole motion, and the channel is back
\* at speed 0 with the stop pulse width as its last write.
RanOnCaller(ch) ==
    /\ last.spawned = <<>>
    /\ LiveTasks = {}
    /\ elapsed = ClaimedMotionTime
    /\ elapsed > 0
    /\ current_speed[ch] = 0
    /\ cmpr[ch] = pwm_range[ch].stop
    /\ LET writes == SelectSeq(log[ch], IsWrite)
       IN  /\ writes # <<>>
           /\ writes[Len(writes)] = <<"w", pwm_range[ch].stop>>

EffectOfSpeedZero(ch) ==
    IF Abs(0 - last.pre_cs[ch]) < 3
    THEN /\ current_speed[ch] = last.pre_cs[ch]
         /\ cmpr[ch] = last.pre_cmpr[ch]
         /\ log[ch] = <<>>
    ELSE /\ current_speed[ch] = 0
         /\ cmpr[ch] = pwm_range[ch].stop
         /\ log[ch] = << <<"w", pwm_range[ch].stop>> >>

\* C22: on an initialized channel stop() has exactly the effect of
\* set_speed(0) from the same state, and it is idempotent: a second stop()
\* right after a first writes nothing and leaves current_speed and the
\* output pulse unchanged.
C22_StopIsSetSpeedZero ==
    /\ (Returned("set_speed") /\ last.speed = 0 /\ initialized[last.tgt]) =>
          EffectOfSpeedZero(last.tgt)
    /\ (Returned("stop") /\ initialized[last.tgt]) =>
          /\ EffectOfSpeedZero(last.tgt)
          /\ last.count = 1 =>
                /\ log[last.tgt] = <<>>
                /\ current_speed[last.tgt] = last.pre_cs[last.tgt]
                /\ cmpr[last.tgt] = last.pre_cmpr[last.tgt]

\* A stop() has returned right after a stop() that left the channel at
\* speed 0 with the stop pulse width.
C22_Witness ==
    /\ Returned("stop")
    /\ last.count = 1
    /\ initialized[ApiChannel]
    /\ last.pre_cs[ApiChannel] = 0
    /\ cmpr[ApiChannel] = pwm_range[ApiChannel].stop
    /\ log[ApiChannel] = <<>>

\* C23: set_raw_pulse_width(p) with p < 1000 or p > 2000 is rejected, with
\* no hardware write and current_speed unchanged; with p in [1000,2000] the
\* pulse width is written, also when the speed it stands for differs from
\* current_speed by less than the deadband of 3.
C23_RawPulseBoundsNoDeadband ==
    (Returned("set_raw_pulse_width") /\ initialized[last.tgt]) =>
        LET ch == last.tgt
            p == last.speed
        IN  IF p < 1000 \/ p > 2000
            THEN /\ log[ch] = <<>>
                 /\ cmpr[ch] = last.pre_cmpr[ch]
                 /\ current_speed[ch] = last.pre_cs[ch]
            ELSE /\ log[ch] = << <<"r", p>> >>
                 /\ cmpr[ch] = p

\* set_raw_pulse_width(1503) from rest under the default range: the speed it
\* stands for is 0, as before, and the pulse width is written all the same.
C23_Witness ==
    /\ Returned("set_raw_pulse_width")
    /\ initialized[ApiChannel]
    /\ pwm_range[ApiChannel] = default_pwm_range
    /\ last.speed = 1503
    /\ last.pre_cs[ApiChannel] = 0
    /\ current_speed[ApiChannel] = 0
    /\ cmpr[ApiChannel] = 1503

\* C24: run_for(speed, d) with d <= 0, or on a channel that is not
\* initialized, is a no-op: no hardware write, no sleep requested, and
\* current_speed left as it was.
C24_RunForRejects ==
    (last.op = "run_for" /\ (last.dur <= 0 \/ ~initialized[last.tgt])) =>
        /\ NothingDone(last.tgt)
        /\ threads[Caller].sleep = 0

\* run_for(40, -100) has returned on a channel running at speed 40, which
\* keeps running.
C24_Witness ==
    /\ Returned("run_for")
    /\ initialized[ApiChannel]
    /\ last.dur = -100
    /\ last.speed = 40
    /\ last.pre_cs[ApiChannel] = 40
    /\ current_speed[ApiChannel] = 40

\* The duration C25 states: the table value when the table has the key
\* |degree|, else (|degree| * full_circle_time_ms) div 360.
ClaimedDuration(degree, c) ==
    LET a == IF degree < 0 THEN -degree ELSE degree
    IN  IF \E k \in DOMAIN c.degree_to_duration : k = a
        THEN c.degree_to_duration[a]
        ELSE (a * c.full_circle_time_ms) \div 360

\* C25: LookupDuration depends only on |degree|: it returns the table value
\* when the table contains |degree|, whatever the formula gives, and
\* (|degree| * full_circle_time_ms) div 360 otherwise; with speed 80, full
\* circle 2000 ms and the table {90: 500}, degree 90 gives 500 and degrees
\* 45 and -45 give 250.
C25_LookupDuration ==
    (mapper.fn = "LookupDuration") =>
        /\ mapper.out_duration = ClaimedDuration(mapper.degree, mapper.calibration)
        /\ mapper.out_duration = LookupDuration(-mapper.degree, mapper.calibration)
        /\ (mapper.calibration.speed = 80 /\ mapper.calibration.degree_to_duration # <<>>) =>
              /\ mapper.degree = 90 => mapper.out_duration = 500
              /\ mapper.degree \in {45, -45} => mapper.out_duration = 250

\* LookupDuration(-45, ...) with a table that holds 260 for 45 while the
\* formula gives 225.
C25_Witness ==
    /\ mapper.fn = "LookupDuration"
    /\ mapper.degree = -45
    /\ mapper.calibration.full_circle_time_ms = 1800
    /\ mapper.out_duration = 260

\* C26: DegreeToServoParams returns speed = sign(degree) * profile.speed,
\* with sign 1 for degree > 0, -1 for degree < 0 and 0 for degree = 0.
C26_SpeedIsSignTimesSpeed ==
    (mapper.fn = "DegreeToServoParams") =>
        mapper.out_speed =
            (IF mapper.degree > 0 THEN 1 ELSE IF mapper.degree < 0 THEN -1 ELSE 0)
            * mapper.calibration.speed

\* The resolution of a target string as C27 lists it.
ClaimedTarget(str) ==
    IF str \in {"both_arms", "arm", "both", "hand", "both_hands"} THEN "both"
    ELSE IF str \in {"right_arm", "right", "right_hand"} THEN "right"
    ELSE IF str \in {"left_arm", "left", "left_hand"} THEN "left"
    ELSE "invalid"

\* A query, or a calibrate with a pulse width in [1000,2000], has returned:
\* the tools whose result depends on the target alone.
TargetDecides ==
    /\ last.done
    /\ \/ last.op = "query"
       \/ last.op = "calibrate" /\ last.speed \in 1000 .. 2000

\* C27: target resolution maps both_arms, arm, both, hand, both_hands to
\* both; right_arm, right, right_hand to right; left_arm, left, left_hand to
\* left; every other string is rejected; normalizing a normalized value
\* returns it unchanged.  A calibrate writes to exactly the channels the
\* target resolves to.
C27_TargetSynonyms ==
    TargetDecides =>
        LET c == ClaimedTarget(last.tgt)
        IN  /\ last.ret <=> c # "invalid"
            /\ c # "invalid" => normalize_target(last.tgt) = c
            /\ normalize_target(normalize_target(last.tgt)) = normalize_target(last.tgt)
            /\ last.op = "calibrate" =>
                  \A ch \in Channels :
                      (log[ch] # <<>>) <=> (initialized[ch] /\ c \in {ch, "both"})

\* calibrate(both_hands, 1510) has written 1510 to both channels.
C27_Witness ==
    /\ last.op = "calibrate" /\ last.tgt = "both_hands"
    /\ last.done /\ last.ret
    /\ cmpr = [ch \in Channels |-> 1510]

\* The lower-case form of the target strings that contain capitals.
ClaimedLowerCase ==
    ("Left" :> "left" @@ "LEFT" :> "left" @@ "Both" :> "both"
        @@ "Right_Arm" :> "right_arm")

\* C28: a target that differs from an accepted synonym only in letter case
\* resolves to the same canonical value as the lower-case synonym and is
\* accepted: the handler returns true and acts on the same channels.
C28_TargetCaseFolded ==
    (TargetDecides /\ last.tgt \in DOMAIN ClaimedLowerCase) =>
        LET c == ClaimedTarget(ClaimedLowerCase[last.tgt])
        IN  /\ last.ret
            /\ last.op = "calibrate" =>
                  \A ch \in Channels :
                      (log[ch] # <<>>) <=> (initialized[ch] /\ c \in {ch, "both"})

\* The writes and sleeps of run_for(s, d) on a channel whose current_speed
\* was pre: none when d <= 0 or the channel is not initialized; otherwise
\* those of the clamped, floored speed, a request of 0 being run at -5.
RunForEvents(ch, s, d, pre) ==
    IF ~initialized[ch] \/ d <= 0 THEN <<>>
    ELSE ClaimedRunForLog(ch, IF s = 0 THEN -5 ELSE ClaimedRunSpeed(s), d, pre)

\* The call produced the writes and sleeps of run_for with its arguments.
SameAsRunFor ==
    log[last.tgt] = RunForEvents(last.tgt, last.speed, last.dur,
                                 last.pre_cs[last.tgt])

\* C30 as stated: raise_arm(speed, d) and salute(speed, d) each produce
\* exactly the writes and sleeps of run_for(speed, d), for every speed and d
\* and every starting state (here: every starting state whose current_speed
\* lies in [-100,100]).
C30_SameAsRunForAlways ==
    (last.op \in {"run_for", "raise_arm", "salute"} /\ last.done
        /\ last.pre_cs[last.tgt] \in -100 .. 100) => SameAsRunFor

\* C30 (amended): raise_arm(speed, d) produces exactly the writes and sleeps
\* of run_for(speed, d) for every speed and d and every starting state; so
\* does salute(speed, d) for every d > 0, its extra stop() writing nothing.
\* With d <= 0 salute performs only its stop(), which writes the stop pulse
\* width when current_speed is 3 or more away from 0.
C30_SameAsRunFor ==
    /\ (last.op \in {"run_for", "raise_arm"} /\ last.done) => SameAsRunFor
    /\ (last.op = "salute" /\ last.done) =>
          IF last.dur > 0 \/ ~initialized[last.tgt]
          THEN SameAsRunFor
          ELSE EffectOfSpeedZero(last.tgt)

\* salute(3, 150) from rest: the events of run_for(5, 150) and nothing more.
C30_Witness ==
    /\ Returned("salute")
    /\ initialized[ApiChannel] /\ ~reverse[ApiChannel]
    /\ pwm_range[ApiChannel] = default_pwm_range
    /\ last.speed = 3 /\ last.dur = 150
    /\ log[ApiChannel] = << <<"w", 1525>>, <<"s", 100>>, <<"s", 50>>, <<"w", 1500>> >>

\* The handles of the object that name an allocated resource.
Held(h) == {n \in {"oper", "cmpr", "gen"} : h[n] = "held"}

\* The handles setup_pwm had allocated when step k began.
AllocatedBefore(k) ==
    {n \in {"oper", "cmpr", "gen"} :
        \/ n = "oper" /\ k >= 2
        \/ n = "cmpr" /\ k >= 4
        \/ n = "gen" /\ k >= 5}

\* C29: when every step of setup_pwm succeeds the constructed channel has
\* initialized true, current_speed 0, the comparator at the stop pulse width
\* and its three resources allocated; when a step fails initialized stays
\* false, every resource allocated before the failing step has been released
\* (and none is left allocated), and the destructor releases nothing: nothing
\* is ever released twice or released without having been allocated.  The
\* destructor of a channel that was set up releases each resource once.
C29_Construction ==
    \A ch \in Channels :
        LET h == hw[ch]
        IN  /\ ~h.bad
            /\ (h.pc = "constructed" /\ CallerIdle /\ h.valid /\ h.failed_at = 0) =>
                  /\ initialized[ch]
                  /\ current_speed[ch] = 0
                  /\ cmpr[ch] = pwm_range[ch].stop
                  /\ Held(h) = {"oper", "cmpr", "gen"}
            /\ h.failed_at # 0 =>
                  /\ ~initialized[ch]
                  /\ Held(h) = {}
                  /\ \A n \in AllocatedBefore(h.failed_at) : h[n] = "null"
                  /\ \A n \in {"oper", "cmpr", "gen"} \ AllocatedBefore(h.failed_at) :
                        h[n] = "unset"
            /\ (h.pc = "destroyed" /\ h.valid /\ h.failed_at = 0) =>
                  \A n \in {"oper", "cmpr", "gen"} : h[n] = "deleted"

\* One channel was destroyed after its generator could not be allocated, the
\* other was set up without a failure and its constructor has returned.
C29_Witness ==
    /\ hw["left"].pc = "destroyed"
    /\ hw["left"].failed_at = 4
    /\ hw["left"].oper = "null"
    /\ hw["left"].cmpr = "null"
    /\ hw["left"].gen = "unset"
    /\ ~initialized["left"]
    /\ hw["right"].pc = "constructed"
    /\ hw["right"].valid
    /\ hw["right"].failed_at = 0
    /\ CallerIdle
    /\ initialized["right"]
    /\ cmpr["right"] = pwm_range["right"].stop

\* The blocking call in progress was started while a task of quick_action was
\* still delaying on its channel.
StartedInQuickWindow ==
    /\ last.op \in {"run_for", "salute"}
    /\ last.before # <<>>

\* C31: quick_action is the primitive whose effect overlaps a later command on
\* the same channel.  When run_for (or a gesture) is started on the channel
\* while the task of quick_action is still delaying, the task's stop() runs
\* inside the later command's motion window: once the task is through, with
\* the window of d ms not yet elapsed, the channel is at speed 0 and the
\* comparator holds the stop pulse width.  A run_for started with no task
\* pending is not disturbed, and a blocking call creates no task of its own.
C31_QuickActionOverlaps ==
    /\ (/\ StartedInQuickWindow
        /\ ~last.done
        /\ elapsed < last.dur
        /\ Solo(last.tgt)) =>
          /\ elapsed >= QuickStopDelay
          /\ current_speed[last.tgt] = 0
          /\ cmpr[last.tgt] = pwm_range[last.tgt].stop
    /\ (last.op \in {"run_for", "salute"} /\ last.before = <<>> /\ ~last.done
           /\ 0 < elapsed /\ elapsed < last.dur /\ initialized[last.tgt]) =>
          current_speed[last.tgt] # 0
    /\ last.op \in {"run_for", "salute"} => last.spawned = <<>>

\* run_for(40, 300) was started right after quick_action(40, ...) on a
\* channel at rest: 100 ms into the 300 ms window the task has stopped the
\* channel, and run_for is still asleep.
C31_Witness ==
    /\ StartedInQuickWindow
    /\ last.op = "run_for"
    /\ last.speed = 40
    /\ last.dur = 300
    /\ ~last.done
    /\ elapsed = 100
    /\ initialized[ApiChannel]
    /\ current_speed[ApiChannel] = 0
    /\ cmpr[ApiChannel] = pwm_range[ApiChannel].stop
    /\ threads[Caller].sleep > 0
    /\ LiveTasks = {}

\* The step is taken by one thread, inside an operation on channel ch.
StepOn(ch) ==
    \E t \in ThreadIds :
        /\ Runnable(t)
        /\ HeadOp(t).ch = ch
        /\ threads'[t] # threads[t]
        /\ \A u \in ThreadIds \ {t} : threads'[u] = threads[u]

\* C32: operations on one channel never change the other channel.  Under
\* every interleaving of the caller and of the tasks that both-target
\* commands launch, a step changes a channel's current_speed or compare value
\* only when it is a step of an operation on that very channel.
C32_OtherChannelUnchanged ==
    [][\A ch \in Channels :
          (current_speed'[ch] # current_speed[ch] \/ cmpr'[ch] # cmpr[ch])
              => StepOn(ch)]_vars

\* The two tasks of set(both, 80, 100) are in flight: the left channel has
\* been driven to speed 80 and the right task has not yet acted on the right
\* channel, which is as it was when the command was issued.
C32_Witness ==
    /\ last.op = "set"
    /\ last.tgt = "both"
    /\ last.before = <<>>
    /\ last.dur = 100
    /\ initialized["left"] /\ initialized["right"]
    /\ current_speed["left"] = 80
    /\ cmpr["left"] = 1900
    /\ log["left"] = << <<"w", 1900>> >>
    /\ current_speed["right"] = 0
    /\ cmpr["right"] = 1500
    /\ log["right"] = <<>>
    /\ \E t \in TaskIds : PendingOn(t, "right") /\ Runnable(t)

\* C33: the controller destructor deletes both channels without waiting for
\* or cancelling the tasks of quick_action and of both-target commands.  A
\* task that had calls pending on a channel when the channel was deleted
\* still holds its pointer and either has those calls still to make or has
\* made a call on the deleted object; only tasks do so, never the thread that
\* runs the destructor.
C33_TasksOutliveChannels ==
    \A ch \in Channels :
        /\ \A t \in hw[ch].orphans : PendingOn(t, ch) \/ hw[ch].dangling
        /\ hw[ch].dangling => hw[ch].orphans # {} /\ hw[ch].pc = "destroyed"
        /\ ~OnDeleted(Caller)

\* quick_set(left) was the last command; the controller was torn down while
\* the stop task of quick_action was asleep; the task then woke and called
\* stop() on the deleted left channel.
C33_Witness ==
    /\ last.op = "quick_set"
    /\ last.tgt = "left"
    /\ last.done
    /\ hw["left"].pc = "destroyed"
    /\ hw["right"].pc = "destroyed"
    /\ hw["left"].orphans # {}
    /\ hw["left"].dangling
    /\ hw["left"].oper = "deleted"
    /\ elapsed = QuickStopDelay

\* C34 (as claimed): right after stop() has returned on an initialized
\* channel with no concurrent operation on it, the compare value is the stop
\* pulse width and current_speed is 0, whatever the state before the call.
C34_StopLeavesStopped ==
    (last.op = "stop" /\ last.done /\ initialized[last.tgt]) =>
        /\ current_speed[last.tgt] = 0
        /\ cmpr[last.tgt] = pwm_range[last.tgt].stop

\* C35 (as claimed): after quick_action(speed, d) with d > 0 on an
\* initialized channel that nothing else touches afterwards, the channel
\* eventually holds the stop pulse width with current_speed 0 and stays
\* there, from every prior state and for every speed.
C35_QuickActionEventuallyStops ==
    [](  (last.op = "quick_action" /\ last.dur > 0 /\ initialized[last.tgt])
      => <>[](/\ current_speed[ApiChannel] = 0
              /\ cmpr[ApiChannel] = pwm_range[ApiChannel].stop))

\* C36 (as claimed): every blocking primitive and gesture returns, every task
\* of quick_action and of a both-target command runs to its end and deletes
\* itself, and with no further commands the system settles in a state with
\* the last handler returned, no live task and both channels at speed 0.
C36_ReachesQuiescence ==
    <>[](/\ CallerIdle
         /\ last.done
         /\ LiveTasks = {}
         /\ \A ch \in Channels : current_speed[ch] = 0)

\* C37: after set_speed(r) has returned on an initialized channel with no
\* concurrent access, current_speed is within 2 of the effective target (r
\* negated on a reversed channel, then clamped to [-100,100]), whatever r and
\* the speed before; a request whose effective target is less than 3 away
\* from current_speed moves neither current_speed nor the compare value and
\* writes nothing, however often it is repeated.
C37_SetSpeedWithinTwo ==
    (last.op = "set_speed" /\ last.done /\ initialized[last.tgt]) =>
        LET ch == last.tgt
            target == ClaimedEffective(ch, last.speed)
        IN  /\ Abs(current_speed[ch] - target) <= 2
            /\ Abs(target - last.pre_cs[ch]) < 3 =>
                  /\ current_speed[ch] = last.pre_cs[ch]
                  /\ cmpr[ch] = last.pre_cmpr[ch]
                  /\ log[ch] = <<>>

\* On a reversed channel at speed -40, set_speed(42) asks for -42: nothing is
\* written and the channel stays at -40, 2 away from the target.
C37_Witness ==
    /\ last.op = "set_speed"
    /\ last.done
    /\ initialized[last.tgt]
    /\ reverse[last.tgt]
    /\ last.speed = 42
    /\ last.pre_cs[last.tgt] = -40
    /\ current_speed[last.tgt] = -40
    /\ cmpr[last.tgt] = last.pre_cmpr[last.tgt]
    /\ log[last.tgt] = <<>>

\* run_for(0, d) with d > 0 is in progress or has returned on an initialized,
\* non-reversed channel that was at rest when it was called.
RunForZeroFromRest ==
    /\ last.op = "run_for"
    /\ last.speed = 0
    /\ last.dur > 0
    /\ initialized[last.tgt]
    /\ ~reverse[last.tgt]
    /\ last.pre_cs[last.tgt] = 0
    /\ last.pre_cmpr[last.tgt] = pwm_range[last.tgt].stop

\* C38: run_for(0, d) with d > 0 on an initialized, non-reversed channel at
\* rest does not leave the channel idle.  The requested 0 becomes -5: the
\* first thing the call does is write the pulse width of speed -5 (1475 under
\* the default range), the channel is at speed -5 until d ms have passed, and
\* the call then writes the stop pulse width and returns with speed 0.
C38_RunForZeroDrivesReverse ==
    RunForZeroFromRest =>
        LET ch == last.tgt
            r == pwm_range[ch]
            pulse == r.stop - (5 * (r.stop - r.max_rev)) \div 100
        IN  /\ r = default_pwm_range => pulse = 1475
            /\ log[ch] # <<>> => log[ch][1] = <<"w", pulse>>
            /\ (log[ch] # <<>> /\ elapsed < last.dur) =>
                  /\ current_speed[ch] = -5
                  /\ cmpr[ch] = pulse
            /\ last.done =>
                  /\ elapsed = last.dur
                  /\ SelectSeq(log[ch], IsWrite) = << <<"w", pulse>>, <<"w", r.stop>> >>
                  /\ current_speed[ch] = 0
                  /\ cmpr[ch] = r.stop

\* run_for(0, 150) has returned on a channel with the default range: it wrote
\* 1475, slept 150 ms and wrote 1500.
C38_Witness ==
    /\ RunForZeroFromRest
    /\ last.done
    /\ last.dur = 150
    /\ pwm_range[last.tgt] = default_pwm_range
    /\ log[last.tgt] = << <<"w", 1475>>, <<"s", 100>>, <<"s", 50>>, <<"w", 1500>> >>
    /\ current_speed[last.tgt] = 0

\* The task bodies a handler's program hands to xTaskCreate.
TasksOf(prog) ==
    LET spawns == SelectSeq(prog, LAMBDA o : o.k = "spawn")
    IN  [i \in 1 .. Len(spawns) |-> spawns[i].p]

\* The call of fine_tune that has returned asked for the reverse direction
\* with valid bounds start_pulse < end_pulse: the task it created is the one
\* the handler creates for "reverse" (last.speed, last.dur and last.count
\* hold start_pulse, end_pulse and step).
FineTuneReverseDone ==
    /\ last.op = "fine_tune"
    /\ last.done
    /\ last.ret
    /\ RawPulseMin <= last.speed
    /\ last.speed < last.dur
    /\ last.dur <= RawPulseMax
    /\ last.spawned =
          TasksOf(tool_fine_tune(last.tgt, "reverse", last.speed, last.dur, last.count))
    /\ LiveTasks = {}

\* C39 (as claimed): fine_tune with direction "reverse" and valid bounds
\* 1000 <= start_pulse < end_pulse <= 2000 sweeps like the forward direction:
\* when its task has finished, every targeted, initialized channel has had at
\* least one raw pulse width in [start_pulse, end_pulse] applied.
C39_ReverseSweeps ==
    FineTuneReverseDone =>
        \A ch \in Channels :
            (initialized[ch] /\ normalize_target(last.tgt) \in {ch, "both"}) =>
                \E i \in 1 .. Len(log[ch]) :
                    /\ log[ch][i][1] = "r"
                    /\ log[ch][i][2] \in last.speed .. last.dur

====
